---------------------------- MODULE Spec2Model ----------------------------
(***************************************************************************)
(* A model of the parsing core of YumeRobo: the torrent decoder            *)
(* (scripts/lib/torrent.ts), the BBCode extractor (scripts/lib/bbcode.ts), *)
(* the MediaInfo text parser (src/lib/utils/mediainfo-parser.ts) and the   *)
(* CLI steps that call them.                                               *)
(*                                                                         *)
(* Strings are sequences of UTF-16 code units; a code unit is written as a *)
(* TLA+ string ("a", "[", "LF", "U0130").  Indices into strings are the    *)
(* 0-based indices of JavaScript.  An optional value (undefined or a       *)
(* value) is a sequence of length 0 or 1.                                  *)
(***************************************************************************)
EXTENDS Integers, Sequences, FiniteSets, TLC

VARIABLES
    \* parseTorrent (scripts/lib/torrent.ts)
    torrentFile,    \* the file at torrentPath: what bencode.decode makes of it
    tpc,            \* "start" | "decoded" | "returned" | "rejected"
    name,           \* const name
    files,          \* const files: TorrentFile[]
    \* extractOutermostQuotes (scripts/lib/bbcode.ts), both definitions
    tokens,         \* the tags and text the input was written from
    input,          \* the input string
    ex,             \* the locals of the call: remaining, results, tagName,
                    \* title, startIndex, depth, pos, endIndex, and pc
    \* stepSpecs (CLI)
    spc,            \* "prompt" | "parse" | "returned"
    specs,
    prompted,       \* the inputs promptBBCode has returned so far
    lib,            \* which definition of the file ./lib/bbcode resolves to
    \* parseMediaInfo / toStructured (src/lib/utils/mediainfo-parser.ts)
    report,         \* the lines the raw report was written from
    text,           \* the raw report
    mpc,            \* "start" | "parsed" | "structured" | "threw"
    parsed,         \* MediaInfoParsed, as the ordered list of its own keys
    structured,
    \* generateSummary (src/lib/utils/mediainfo-parser.ts)
    media,          \* the argument: a MediaInfoStructured
    gpc,            \* "start" | "video" | "audio" | "text" | "returned"
    parts,          \* const parts: string[]
    summary,        \* the string returned
    \* getUniqueLanguageFlags and getLanguageFlag (src/lib/content/loader.ts)
    labels,         \* the labels of the argument `languages`, each with the
                    \* canonical language it stands for
    lpc,            \* "start" | "unique" | "uniqueReturned" | "uniqueThrew"
                    \* | "flagReturned" | "flagThrew"
    li,             \* the number of labels the loop has taken
    normalizedLang, \* const normalized of the last iteration
    seen,
    result,
    flag,           \* what getLanguageFlag(language) returned
    \* parseInnerBBCode (scripts/lib/bbcode.ts)
    content,        \* the tags and text the argument was written from
    innerResult,    \* let result
    statement,      \* the number of the next result = result.replace(...)
    ipc,            \* "replace" | "returned"
    \* TempFileManager (scripts/lib/bbcode.ts)
    tmpFiles,       \* this.files: the entries in the order of insertion, each
                    \* with the number of its insertion
    isCleaning,     \* this.isCleaning
    disk,           \* the paths at which a file exists
    nextId,         \* the number of the next insertion
    tmpCalls,       \* the calls of add, remove and cleanup so far: op, pc
                    \* ("unlinking" | "resolved"), the file being unlinked,
                    \* the paths registered when the call began, and the
                    \* entry the loop of cleanup is at
    \* debounce (src/lib/utils/mediainfo-parser.ts)
    clock,          \* the time, in ticks
    timeoutId,      \* let timeoutId (0: undefined)
    timers,         \* the timers pending: id, due time and the args bound
    debCalls,       \* the calls of the debounced function: time and args
    invoked,        \* the invocations of fn: time, args and the number of
                    \* calls made before
    \* boundaryIndicator (src/lib/utils/overscroll.ts)
    ov,             \* the closure's variables and opts.enableLoadMore, the
                    \* three timers, and the event the last step dispatched
    page,           \* where the page is scrolled to
    touching,       \* a touch has started and not ended
    scrollPending,  \* the page has scrolled and its scroll event is to come
    sinceDispatch,  \* ticks since the last boundary-loadmore, up to the
                    \* cooldown
    bottomFor,      \* ticks the page has been at its bottom, up to the
                    \* settle delay
    \* loadMediaInfoContent (the release page)
    loadedMediaInfo,    \* the keys of the Map loadedMediaInfo
    loadingMediaInfo,   \* the Set loadingMediaInfo
    pending,        \* the calls that wait at an await: id, hash, and
                    \* whether for fetch or for response.text()
    issued,         \* the fetches issued so far, each with what was loaded
                    \* and what was in flight when it was issued
    settled,        \* how each finished call went
    loadCalls,      \* the number of calls so far
    \* stepTorrents (the command line tool)
    step,           \* where stepTorrents is: at which await, or "returned"
    torrents,       \* const torrents: TorrentEntry[]
    torrentPath,    \* the file at torrentPath
    parsedTorrent,  \* const parsedTorrent
    display_name,   \* const display_name
    mediainfo,      \* const mediainfo: MediaInfoEntry[]
    toWrite,        \* content, filename and hash of the file being written
    hashes,         \* the number of hashes generateHash has made
    events          \* the prompts shown and the lines logged, in order

torrentVars == <<torrentFile, tpc, name, files>>
bbVars == <<tokens, input, ex>>
cliVars == <<spc, specs, prompted, lib>>
miVars == <<report, text, mpc, parsed, structured>>
sumVars == <<media, gpc, parts, summary>>
langVars == <<labels, lpc, li, normalizedLang, seen, result, flag>>
innerVars == <<content, innerResult, statement, ipc>>
tmpVars == <<tmpFiles, isCleaning, disk, nextId, tmpCalls>>
debVars == <<clock, timeoutId, timers, debCalls, invoked>>
ovVars == <<ov, page, touching, scrollPending, sinceDispatch, bottomFor>>
loadVars == <<loadedMediaInfo, loadingMediaInfo, pending, issued, settled, loadCalls>>
stepVars == <<step, torrents, torrentPath, parsedTorrent, display_name, mediainfo, toWrite, hashes, events>>
vars == <<torrentVars, bbVars, cliVars, miVars, sumVars, langVars, innerVars, tmpVars, debVars, ovVars, loadVars, stepVars>>
\* what the actions of one component leave alone

-----------------------------------------------------------------------------
(* JavaScript values and string operations                                  *)

None == <<>>
Some(v) == <<v>>
IsSome(o) == Len(o) = 1
Val(o) == o[1]

Min(a, b) == IF a < b THEN a ELSE b
Max(a, b) == IF a > b THEN a ELSE b

RECURSIVE FlattenRange(_, _, _)
FlattenRange(ss, a, b) ==
    IF a > b THEN <<>>
    ELSE IF a = b THEN ss[a]
    ELSE FlattenRange(ss, a, (a + b) \div 2) \o FlattenRange(ss, (a + b) \div 2 + 1, b)
\* (CHOOSE r \in {F(v) : v \in {X}} : TRUE is F(X), with X worked out once.)
Flatten(ss) == CHOOSE r \in {FlattenRange(v, 1, Len(v)) : v \in {ss}} : TRUE

\* String.prototype.substring(from, to) / substring(from), 0-based, to exclusive
substring(s, from, to) ==
    LET a == Min(Max(Min(from, to), 0), Len(s))
        b == Min(Max(Max(from, to), 0), Len(s))
    IN  SubSeq(s, a + 1, b)
substringFrom(s, from) == substring(s, from, Len(s))

\* whether needle occurs in s at 0-based index i
OccursAt(s, needle, i) ==
    /\ i >= 0
    /\ i + Len(needle) <= Len(s)
    /\ SubSeq(s, i + 1, i + Len(needle)) = needle

\* String.prototype.indexOf(needle, from): the least index >= from, or -1
indexOf(s, needle, from) ==
    LET hits == {i \in Max(from, 0)..(Len(s) - Len(needle)) : OccursAt(s, needle, i)}
    IN  IF hits = {} THEN -1 ELSE CHOOSE i \in hits : \A j \in hits : i <= j

\* the ASCII letters and digits
Ascii ==
    [ upper |-> <<"A", "B", "C", "D", "E", "F", "G", "H", "I", "J", "K", "L",
        "M", "N", "O", "P", "Q", "R", "S", "T", "U", "V", "W", "X", "Y",
        "Z">>,
      lower |-> <<"a", "b", "c", "d", "e", "f", "g", "h", "i", "j", "k", "l",
          "m", "n", "o", "p", "q", "r", "s", "t", "u", "v", "w", "x", "y",
          "z">>,
      digit |-> <<"0", "1", "2", "3", "4", "5", "6", "7", "8", "9">> ]

\* String.prototype.toLowerCase, per code unit.  U+0130 (capital I with dot
\* above) lower-cases to the two code units U+0069 U+0307 (SpecialCasing.txt);
\* every other code unit of the model maps to one code unit.
LowerUnit(c) ==
    IF c = "U0130" THEN <<"i", "U0307">>
    ELSE IF \E i \in 1..26 : Ascii.upper[i] = c
    THEN <<Ascii.lower[CHOOSE i \in 1..26 : Ascii.upper[i] = c]>>
    ELSE <<c>>
toLowerCase(s) == Flatten([i \in 1..Len(s) |-> LowerUnit(s[i])])

\* String.prototype.toUpperCase, per code unit: U+00DF (sharp s) upper-cases to
\* the two code units "SS"
UpperUnit(c) ==
    IF c = "U00DF" THEN <<"S", "S">>
    ELSE IF \E i \in 1..26 : Ascii.lower[i] = c
    THEN <<Ascii.upper[CHOOSE i \in 1..26 : Ascii.lower[i] = c]>>
    ELSE <<c>>
toUpperCase(s) == Flatten([i \in 1..Len(s) |-> UpperUnit(s[i])])

\* String.prototype.includes
includes(s, needle) == indexOf(s, needle, 0) /= -1

\* String.prototype.replace(pat, by) for a string pattern: the first occurrence
replaceFirst(s, pat, by) ==
    IF indexOf(s, pat, 0) = -1 THEN s
    ELSE substring(s, 0, indexOf(s, pat, 0)) \o by
             \o substringFrom(s, indexOf(s, pat, 0) + Len(pat))

\* String(n) for a natural number
RECURSIVE NumberToString(_)
NumberToString(n) ==
    IF n < 10 THEN <<Ascii.digit[n + 1]>>
    ELSE NumberToString(n \div 10) \o <<Ascii.digit[(n % 10) + 1]>>

\* the white space String.prototype.trim removes
IsSpace(c) == c \in {" ", "LF", "CR", "TAB", "NBSP"}

RECURSIVE trimStart(_)
trimStart(s) == IF s /= <<>> /\ IsSpace(Head(s)) THEN trimStart(Tail(s)) ELSE s
RECURSIVE trimEnd(_)
trimEnd(s) ==
    IF s /= <<>> /\ IsSpace(s[Len(s)]) THEN trimEnd(SubSeq(s, 1, Len(s) - 1)) ELSE s
trim(s) == CHOOSE r \in {trimEnd(trimStart(v)) : v \in {s}} : TRUE

\* Array.prototype.join(sep) on an array of strings
RECURSIVE join(_, _)
join(arr, sep) ==
    IF arr = <<>> THEN <<>>
    ELSE IF Len(arr) = 1 THEN arr[1]
    ELSE arr[1] \o sep \o join(Tail(arr), sep)

\* all sequences over S of length at most n
SeqsUpTo(S, n) == UNION {[1..k -> S] : k \in 0..n}


-----------------------------------------------------------------------------
(* A component that a specification does not run stays in its idle state.   *)

ExIdle ==
    [pc |-> "idle", remaining |-> <<>>, results |-> <<>>, tagName |-> <<>>,
     title |-> <<>>, startIndex |-> 0, depth |-> 0, pos |-> 0, endIndex |-> -1]
BBIdle == tokens = <<>> /\ input = <<>> /\ ex = ExIdle
CliIdle == spc = "idle" /\ specs = <<>> /\ prompted = <<>> /\ lib = 0
MIIdle == report = <<>> /\ text = <<>> /\ mpc = "idle" /\ parsed = <<>> /\ structured = <<>>
SumIdle == media = <<>> /\ gpc = "idle" /\ parts = <<>> /\ summary = <<>>
StepIdle ==
    /\ step = "idle" /\ torrents = <<>> /\ torrentPath = <<>>
    /\ parsedTorrent = <<>> /\ display_name = <<>> /\ mediainfo = <<>>
    /\ toWrite = <<>> /\ hashes = 0 /\ events = <<>>
LoadIdle ==
    /\ loadedMediaInfo = {} /\ loadingMediaInfo = {} /\ pending = {}
    /\ issued = <<>> /\ settled = <<>> /\ loadCalls = 0
OvIdle ==
    /\ ov = <<>> /\ page = "" /\ touching = FALSE /\ scrollPending = FALSE
    /\ sinceDispatch = 0 /\ bottomFor = 0
DebIdle ==
    /\ clock = 0 /\ timeoutId = 0 /\ timers = {} /\ debCalls = <<>>
    /\ invoked = <<>>
TmpIdle ==
    /\ tmpFiles = <<>> /\ isCleaning = FALSE /\ disk = {} /\ nextId = 0
    /\ tmpCalls = <<>>
InnerIdle == content = <<>> /\ innerResult = <<>> /\ statement = 0 /\ ipc = "idle"
LangIdle ==
    /\ labels = <<>> /\ lpc = "idle" /\ li = 0 /\ normalizedLang = <<>>
    /\ seen = {} /\ result = <<>> /\ flag = <<>>

-----------------------------------------------------------------------------
(* parseTorrent: scripts/lib/torrent.ts                                     *)

MaxFiles == 2       \* entries of info.files
MaxPath == 2        \* components of one entry's path

\* new TextDecoder().decode(bytes): UTF-8, a malformed byte becomes U+FFFD.
\* The bytes of the model: 0x41 "A", 0x2F "/", 0xC3 0xA9 (U+00E9), 0xFF.
RECURSIVE DecodeUtf8(_)
DecodeUtf8(b) ==
    IF b = <<>> THEN <<>>
    ELSE IF Head(b) = 65 THEN <<"A">> \o DecodeUtf8(Tail(b))
    ELSE IF Head(b) = 47 THEN <<"/">> \o DecodeUtf8(Tail(b))
    ELSE IF Head(b) = 195 /\ Len(b) >= 2 /\ b[2] = 169
         THEN <<"U00E9">> \o DecodeUtf8(Tail(Tail(b)))
    ELSE <<"UFFFD">> \o DecodeUtf8(Tail(b))

\* const toStr = (val) => ...
toStr(val) ==
    IF val.kind = "string" THEN val.s ELSE DecodeUtf8(val.b)

Str(s) == [kind |-> "string", s |-> s, b |-> <<>>]
Bytes(b) == [kind |-> "bytes", s |-> <<>>, b |-> b]

\* mutant: length is looked at before files
TorrentFilesLengthFirst(info) ==
    IF IsSome(info.length) /\ Val(info.length) /= 0
    THEN <<[path |-> toStr(info.name), size |-> Val(info.length)]>>
    ELSE IF IsSome(info.files)
    THEN [i \in 1..Len(Val(info.files)) |->
            [path |-> join([j \in 1..Len(Val(info.files)[i].path) |->
                              toStr(Val(info.files)[i].path[j])], <<"/">>),
             size |-> Val(info.files)[i].length]]
    ELSE <<>>

\* lines 34-51: the files pushed.  An array (also an empty one) is truthy; a
\* number is truthy unless it is 0.
TorrentFiles(info) ==
    IF IsSome(info.files)
    THEN [i \in 1..Len(Val(info.files)) |->
            [path |-> join([j \in 1..Len(Val(info.files)[i].path) |->
                              toStr(Val(info.files)[i].path[j])], <<"/">>),
             size |-> Val(info.files)[i].length]]
    ELSE IF IsSome(info.length) /\ Val(info.length) /= 0
    THEN <<[path |-> toStr(info.name), size |-> Val(info.length)]>>
    ELSE <<>>

\* the inputs: what bencode.decode returns for the file, or that it throws
TorrentNames == {Str(<<"S">>), Bytes(<<65>>), Bytes(<<195, 169, 255>>)}
PathParts == {Str(<<"e">>), Bytes(<<65, 47>>)}
TorrentLengths == {0, 100}
TorrentPaths == SeqsUpTo(PathParts, MaxPath)
TorrentFileEntries == [path : TorrentPaths, length : TorrentLengths]
TorrentInfos ==
    [name : TorrentNames,
     files : {None} \cup {Some(fs) : fs \in SeqsUpTo(TorrentFileEntries, MaxFiles)},
     length : {None} \cup {Some(n) : n \in TorrentLengths}]
TorrentInputs ==
    {[ok |-> FALSE, info |-> None]}
    \cup {[ok |-> TRUE, info |-> None]}
    \cup {[ok |-> TRUE, info |-> Some(i)] : i \in TorrentInfos}

TorrentIdle ==
    /\ torrentFile = [ok |-> FALSE, info |-> None]
    /\ tpc = "idle"
    /\ name = <<>>
    /\ files = <<>>

TorrentInit ==
    /\ torrentFile \in TorrentInputs
    /\ tpc = "start"
    /\ name = <<>>
    /\ files = <<>>

\* lines 23-24: fs.readFile and bencode.decode; malformed bencode throws
ReadAndDecode ==
    /\ tpc = "start"
    /\ tpc' = IF torrentFile.ok THEN "decoded" ELSE "rejected"
    /\ UNCHANGED <<torrentFile, name, files>>
    /\ UNCHANGED <<bbVars, cliVars, miVars, sumVars, langVars, innerVars, tmpVars, debVars, ovVars, loadVars, stepVars>>

\* lines 33-53; decoded.info.name with no info dictionary is a TypeError
ExtractFiles ==
    /\ tpc = "decoded"
    /\ IF IsSome(torrentFile.info)
       THEN /\ name' = toStr(Val(torrentFile.info).name)
            /\ files' = TorrentFiles(Val(torrentFile.info))
            /\ tpc' = "returned"
       ELSE /\ tpc' = "rejected"
            /\ UNCHANGED <<name, files>>
    /\ UNCHANGED torrentFile
    /\ UNCHANGED <<bbVars, cliVars, miVars, sumVars, langVars, innerVars, tmpVars, debVars, ovVars, loadVars, stepVars>>

TorrentNext == ReadAndDecode \/ ExtractFiles


\* parseTorrent alone
InitTorrent == TorrentInit /\ BBIdle /\ CliIdle /\ MIIdle /\ SumIdle /\ LangIdle /\ InnerIdle /\ TmpIdle /\ DebIdle /\ OvIdle /\ LoadIdle /\ StepIdle
SpecTorrent == InitTorrent /\ [][TorrentNext]_vars

TorrentInfo == Val(torrentFile.info)
TorrentReturned == tpc = "returned"

\* C1: a torrent whose info has neither files nor length is rejected; the
\* call never returns for it (and so never returns an empty file list).
C1_RejectsWithoutFilesAndLength ==
    (/\ tpc \in {"returned", "rejected"}
     /\ torrentFile.ok
     /\ IsSome(torrentFile.info)
     /\ TorrentInfo.files = None
     /\ TorrentInfo.length = None)
    => (tpc = "rejected" /\ ~(tpc = "returned" /\ files = <<>>))

\* C6: with info.files absent and info.length present, whatever integer it
\* declares, the call returns exactly one file: path = name, size = length.
C6_SingleFileFromLength ==
    (/\ tpc \in {"returned", "rejected"}
     /\ torrentFile.ok
     /\ IsSome(torrentFile.info)
     /\ TorrentInfo.files = None
     /\ IsSome(TorrentInfo.length))
    => (/\ tpc = "returned"
        /\ Len(files) = 1
        /\ files[1].path = name
        /\ files[1].size = Val(TorrentInfo.length))

\* the path of entry e of info.files, as the claim states it: the components,
\* each decoded, with one "/" between neighbours
RECURSIVE SlashJoined(_)
SlashJoined(ps) ==
    IF ps = <<>> THEN <<>>
    ELSE IF Len(ps) = 1 THEN toStr(ps[1])
    ELSE SlashJoined(SubSeq(ps, 1, Len(ps) - 1)) \o <<"/">> \o toStr(ps[Len(ps)])

\* C7: with info.files present the call returns one file per entry, in the
\* entries' order, path = the components joined by "/", size = the declared
\* length; and this also when info.length is present.
C7_OneFilePerEntry ==
    (/\ tpc \in {"returned", "rejected"}
     /\ torrentFile.ok
     /\ IsSome(torrentFile.info)
     /\ IsSome(TorrentInfo.files))
    => (/\ tpc = "returned"
        /\ Len(files) = Len(Val(TorrentInfo.files))
        /\ \A i \in 1..Len(files) :
              /\ files[i].path = SlashJoined(Val(TorrentInfo.files)[i].path)
              /\ files[i].size = Val(TorrentInfo.files)[i].length)

\* C7 witness: a returned two-entry torrent that also declares a length
C7_Witness ==
    /\ tpc = "returned"
    /\ IsSome(torrentFile.info)
    /\ IsSome(TorrentInfo.files)
    /\ IsSome(TorrentInfo.length)
    /\ Val(TorrentInfo.length) /= 0
    /\ Len(files) = 2
    /\ Len(Val(TorrentInfo.files)[1].path) = 2
    /\ files[1].size /= files[2].size

-----------------------------------------------------------------------------
(* extractOutermostQuotes: scripts/lib/bbcode.ts                             *)

MaxTokens == 4      \* tags and pieces of text in one generated input

\* The inputs are written from tags and pieces of text.  A token keeps what
\* it is (for stating the claims) and the string it stands for (all the code
\* ever sees).
OpenTok(tag, ttl, str) == [kind |-> "open", tag |-> tag, title |-> ttl, str |-> str]
CloseTok(tag, str) == [kind |-> "close", tag |-> tag, title |-> <<>>, str |-> str]
TextTok(str) == [kind |-> "text", tag |-> "", title |-> <<>>, str |-> str]

\* the tags and pieces of text the inputs are written from: [quote=A],
\* [Quote= B ], [/quote], [spoiler=X], [/spoiler], x, U+0130 (LATIN CAPITAL
\* LETTER I WITH DOT ABOVE), the text [quoted], and what parseInnerBBCode
\* rewrites
Tok ==
    [ QA |-> OpenTok("quote", <<"A">>, <<"[", "q", "u", "o", "t", "e", "=", "A",
         "]">>),
      QB |-> OpenTok("quote", <<"B">>, <<"[", "Q", "u", "o", "t", "e", "=", " ",
         "B", " ", "]">>),
      CQ |-> CloseTok("quote", <<"[", "/", "q", "u", "o", "t", "e", "]">>),
      SX |-> OpenTok("spoiler", <<"X">>, <<"[", "s", "p", "o", "i", "l", "e", "r",
         "=", "X", "]">>),
      CS |-> CloseTok("spoiler", <<"[", "/", "s", "p", "o", "i", "l", "e", "r",
         "]">>),
      X |-> TextTok(<<"x">>),
      I |-> TextTok(<<"U0130">>),
      B |-> TextTok(<<"[", "b", "]">>),
      CB |-> TextTok(<<"[", "/", "B", "]">>),
      IT |-> TextTok(<<"[", "i", "]">>),
      CIT |-> TextTok(<<"[", "/", "I", "]">>),
      URL |-> TextTok(<<"[", "u", "r", "l", "=", "u", "]">>),
      CURL |-> TextTok(<<"[", "/", "u", "r", "l", "]">>),
      COLOR |-> TextTok(<<"[", "c", "o", "l", "o", "r", "=", "]">>),
      IMG |-> TextTok(<<"[", "i", "m", "g", "]">>),
      CIMG |-> TextTok(<<"[", "/", "i", "m", "g", "]">>),
      Q0 |-> OpenTok("quote", <<>>, <<"[", "q", "u", "o", "t", "e", "=", "]">>),
      QD |-> TextTok(<<"[", "q", "u", "o", "t", "e", "d", "]">>),
      SP |-> TextTok(<<" ">>) ]

BBTokens == {Tok.QA, Tok.QB, Tok.CQ, Tok.SX, Tok.CS, Tok.X, Tok.I, Tok.QD}

InputOf(ts) == Flatten([i \in 1..Len(ts) |-> ts[i].str])

\* the examples of the specification, whatever MaxTokens is
NamedInputs ==
    { <<Tok.QA, Tok.QB, Tok.QA, Tok.X, Tok.CQ, Tok.CQ, Tok.CQ>>,
      <<Tok.QA, Tok.SX, Tok.X, Tok.CS, Tok.CQ>>,
      <<Tok.QA, Tok.X, Tok.SX, Tok.X, Tok.CQ>>,
      <<Tok.SX, Tok.QA, Tok.X, Tok.QB, Tok.X, Tok.CQ, Tok.CQ, Tok.CS>> }
BBInputs == SeqsUpTo(BBTokens, MaxTokens) \cup NamedInputs

\* a regular expression's literal under the i flag: the code units of s from
\* 0-based index i on equal lit up to case
MatchesLiteralI(s, i, lit) ==
    /\ i >= 0
    /\ i + Len(lit) <= Len(s)
    /\ \A k \in 1..Len(lit) : LowerUnit(s[i + k]) = <<lit[k]>>

\* /\[(quote|spoiler)=([^\]]+)\]/i tried at index i for one of the names:
\* "[", the name, "=", one or more code units other than "]", and "]"
OpenTagAt(s, i, nm) ==
    /\ MatchesLiteralI(s, i, <<"[">> \o nm \o <<"=">>)
    /\ indexOf(s, <<"]">>, i + Len(nm) + 2) > i + Len(nm) + 2

\* String.prototype.match without the g flag: the leftmost match, or null.
\* index, [0].length, [1] and [2] of the match.
RegexMatchOpen(s, nms) ==
    LET hits == {i \in 0..(Len(s) - 1) : \E nm \in nms : OpenTagAt(s, i, nm)}
    IN  IF hits = {} THEN None
        ELSE LET i == CHOOSE h \in hits : \A j \in hits : h <= j
                 nm == CHOOSE n \in nms : OpenTagAt(s, i, n)
                 close == indexOf(s, <<"]">>, i + Len(nm) + 2)
             IN  Some([index |-> i,
                       length |-> close + 1 - i,
                       g1 |-> substring(s, i + 1, i + 1 + Len(nm)),
                       g2 |-> substring(s, i + Len(nm) + 2, close)])

QuoteName == <<"q", "u", "o", "t", "e">>
SpoilerName == <<"s", "p", "o", "i", "l", "e", "r">>

ExStart(in) ==
    [pc |-> "outer", remaining |-> in, results |-> <<>>, tagName |-> <<>>,
     title |-> <<>>, startIndex |-> 0, depth |-> 0, pos |-> 0, endIndex |-> -1]

\* lines 77-91: the head of the outer loop
FindOpen(e) ==
    LET openMatch == RegexMatchOpen(e.remaining, {QuoteName, SpoilerName})
    IN  IF openMatch = None
        THEN [e EXCEPT !.pc = "returned"]
        ELSE LET m == Val(openMatch)
             IN  [e EXCEPT !.pc = "inner",
                           !.tagName = toLowerCase(m.g1),
                           !.title = trim(m.g2),
                           !.startIndex = m.index + m.length,
                           !.depth = 1,
                           !.pos = m.index + m.length,
                           !.endIndex = -1]

openTagStr(e) == <<"[">> \o e.tagName
closeTagStr(e) == <<"[", "/">> \o e.tagName \o <<"]">>
nextOpen(e) == indexOf(toLowerCase(e.remaining), openTagStr(e), e.pos)
nextClose(e) == indexOf(toLowerCase(e.remaining), closeTagStr(e), e.pos)

\* line 93 and line 97: the inner loop runs once more
InnerContinues(e) ==
    /\ e.pos < Len(e.remaining)
    /\ e.depth > 0
    /\ nextClose(e) /= -1

\* lines 99-110: one iteration of the inner loop
InnerStep(e) ==
    IF nextOpen(e) /= -1 /\ nextOpen(e) < nextClose(e)
    THEN [e EXCEPT !.depth = e.depth + 1,
                   !.pos = nextOpen(e) + Len(openTagStr(e))]
    ELSE [e EXCEPT !.depth = e.depth - 1,
                   !.endIndex = IF e.depth - 1 = 0 THEN nextClose(e) ELSE e.endIndex,
                   !.pos = nextClose(e) + Len(closeTagStr(e))]

\* mutant: an unbalanced block is skipped without dropping its opener
AfterInnerKeepsOpener(e) ==
    IF e.endIndex /= -1
    THEN [e EXCEPT !.pc = "outer",
                   !.results = Append(e.results,
                                      [title |-> e.title,
                                       content |-> substring(e.remaining, e.startIndex,
                                                             e.endIndex)]),
                   !.remaining = substringFrom(e.remaining, e.pos)]
    ELSE [e EXCEPT !.pc = "outer"]
\* lines 113-120: after the inner loop
AfterInner(e) ==
    IF e.endIndex /= -1
    THEN [e EXCEPT !.pc = "outer",
                   !.results = Append(e.results,
                                      [title |-> e.title,
                                       content |-> substring(e.remaining, e.startIndex,
                                                             e.endIndex)]),
                   !.remaining = substringFrom(e.remaining, e.pos)]
    ELSE [e EXCEPT !.pc = "outer",
                   !.remaining = substringFrom(e.remaining, e.startIndex)]

\* one step of the call, whichever it is
ExtractStep(e) ==
    IF e.pc = "outer" THEN FindOpen(e)
    ELSE IF InnerContinues(e) THEN InnerStep(e)
    ELSE AfterInner(e)

\* the call, run to its return: the array it returns
RECURSIVE extractOutermostQuotes(_)
extractOutermostQuotes(e) ==
    IF e.pc = "returned" THEN e.results
    ELSE CHOOSE r \in {extractOutermostQuotes(n) : n \in {ExtractStep(e)}} : TRUE

BBInit ==
    /\ tokens \in BBInputs
    /\ input = InputOf(tokens)
    /\ ex = ExStart(input)

OuterIteration ==
    /\ ex.pc = "outer"
    /\ ex' = FindOpen(ex)
    /\ UNCHANGED <<tokens, input>>
    /\ UNCHANGED <<torrentVars, cliVars, miVars, sumVars, langVars, innerVars, tmpVars, debVars, ovVars, loadVars, stepVars>>

InnerIteration ==
    /\ ex.pc = "inner"
    /\ InnerContinues(ex)
    /\ ex' = InnerStep(ex)
    /\ UNCHANGED <<tokens, input>>
    /\ UNCHANGED <<torrentVars, cliVars, miVars, sumVars, langVars, innerVars, tmpVars, debVars, ovVars, loadVars, stepVars>>

InnerExit ==
    /\ ex.pc = "inner"
    /\ ~InnerContinues(ex)
    /\ ex' = AfterInner(ex)
    /\ UNCHANGED <<tokens, input>>
    /\ UNCHANGED <<torrentVars, cliVars, miVars, sumVars, langVars, innerVars, tmpVars, debVars, ovVars, loadVars, stepVars>>

BBNext == OuterIteration \/ InnerIteration \/ InnerExit

InitExtract == TorrentIdle /\ BBInit /\ CliIdle /\ MIIdle /\ SumIdle /\ LangIdle /\ InnerIdle /\ TmpIdle /\ DebIdle /\ OvIdle /\ LoadIdle /\ StepIdle
SpecExtract == InitExtract /\ [][BBNext]_vars

-----------------------------------------------------------------------------
(* The second definition of extractOutermostQuotes in the same file          *)
(* (lines 208-255): quote blocks only, tags searched for as written, and an  *)
(* unbalanced block ends the call.                                           *)

\* lines 214-223
FindOpen2(e) ==
    LET openMatch == RegexMatchOpen(e.remaining, {QuoteName})
    IN  IF openMatch = None
        THEN [e EXCEPT !.pc = "returned"]
        ELSE LET m == Val(openMatch)
             IN  [e EXCEPT !.pc = "inner",
                           !.tagName = QuoteName,
                           !.title = trim(m.g2),
                           !.startIndex = m.index + m.length,
                           !.depth = 1,
                           !.pos = m.index + m.length,
                           !.endIndex = -1]

nextOpen2(e) == indexOf(e.remaining, <<"[">> \o QuoteName, e.pos)
nextClose2(e) == indexOf(e.remaining, <<"[", "/">> \o QuoteName \o <<"]">>, e.pos)

\* line 225 and line 229
InnerContinues2(e) ==
    /\ e.pos < Len(e.remaining)
    /\ e.depth > 0
    /\ nextClose2(e) /= -1

\* lines 231-242
InnerStep2(e) ==
    IF nextOpen2(e) /= -1 /\ nextOpen2(e) < nextClose2(e)
    THEN [e EXCEPT !.depth = e.depth + 1,
                   !.pos = nextOpen2(e) + 6]
    ELSE [e EXCEPT !.depth = e.depth - 1,
                   !.endIndex = IF e.depth - 1 = 0 THEN nextClose2(e) ELSE e.endIndex,
                   !.pos = nextClose2(e) + 8]

\* lines 245-251
AfterInner2(e) ==
    IF e.endIndex /= -1
    THEN [e EXCEPT !.pc = "outer",
                   !.results = Append(e.results,
                                      [title |-> e.title,
                                       content |-> substring(e.remaining, e.startIndex,
                                                             e.endIndex)]),
                   !.remaining = substringFrom(e.remaining, e.pos)]
    ELSE [e EXCEPT !.pc = "returned"]

OuterIteration2 ==
    /\ ex.pc = "outer"
    /\ ex' = FindOpen2(ex)
    /\ UNCHANGED <<tokens, input>>
    /\ UNCHANGED <<torrentVars, cliVars, miVars, sumVars, langVars, innerVars, tmpVars, debVars, ovVars, loadVars, stepVars>>

InnerIteration2 ==
    /\ ex.pc = "inner"
    /\ InnerContinues2(ex)
    /\ ex' = InnerStep2(ex)
    /\ UNCHANGED <<tokens, input>>
    /\ UNCHANGED <<torrentVars, cliVars, miVars, sumVars, langVars, innerVars, tmpVars, debVars, ovVars, loadVars, stepVars>>

InnerExit2 ==
    /\ ex.pc = "inner"
    /\ ~InnerContinues2(ex)
    /\ ex' = AfterInner2(ex)
    /\ UNCHANGED <<tokens, input>>
    /\ UNCHANGED <<torrentVars, cliVars, miVars, sumVars, langVars, innerVars, tmpVars, debVars, ovVars, loadVars, stepVars>>

BBNext2 == OuterIteration2 \/ InnerIteration2 \/ InnerExit2

SpecExtract2 == InitExtract /\ [][BBNext2]_vars

-----------------------------------------------------------------------------
(* parseInnerBBCode and parseBBCodeSpecs (scripts/lib/bbcode.ts), and        *)
(* stepSpecs of the command line tool.                                       *)

MaxPrompts == 3     \* times stepSpecs asks before the model stops asking

\* The regular expressions of parseInnerBBCode, all under the flags g and i:
\*   lit       a literal                              \[\/quote\]
\*   attr      \[a=([^\]]{min,})\]                    \[quote=([^\]]+)\]
\*   pair      a([^\[]*)b, a and b literals           \[b\]([^\[]*)\[\/b\]
\*   attrpair  \[a=([^\]]+)\]([^\[]*)b                \[url=...\]...\[\/url\]
Lit(a) == [kind |-> "lit", a |-> a, b |-> <<>>, min |-> 0]
Attr(a, min) == [kind |-> "attr", a |-> a, b |-> <<>>, min |-> min]
Pair(a, b) == [kind |-> "pair", a |-> a, b |-> b, min |-> 0]
AttrPair(a, b) == [kind |-> "attrpair", a |-> a, b |-> b, min |-> 1]

Matched(end, g1, g2) == Some([end |-> end, g1 |-> g1, g2 |-> g2])

\* ([^\[]*) from 0-based index from on, followed by the literal b: the class
\* runs up to the next "[" and b has to start there
MatchBody(s, from, b) ==
    LET open == indexOf(s, <<"[">>, from)
    IN  IF open /= -1 /\ MatchesLiteralI(s, open, b)
        THEN Matched(open + Len(b), substring(s, from, open), <<>>)
        ELSE None

\* \[a=([^\]]{min,})\] at i: the class runs up to the next "]"
MatchAttr(s, i, a, min) ==
    LET from == i + Len(a) + 2
        close == indexOf(s, <<"]">>, from)
    IN  IF /\ MatchesLiteralI(s, i, <<"[">> \o a \o <<"=">>)
           /\ close /= -1
           /\ close - from >= min
        THEN Matched(close + 1, substring(s, from, close), <<>>)
        ELSE None

\* the match of pattern p that starts at 0-based index i of s, if there is one
MatchAt(p, s, i) ==
    IF p.kind = "lit"
    THEN IF MatchesLiteralI(s, i, p.a) THEN Matched(i + Len(p.a), <<>>, <<>>)
         ELSE None
    ELSE IF p.kind = "attr" THEN MatchAttr(s, i, p.a, p.min)
    ELSE IF p.kind = "pair"
    THEN IF MatchesLiteralI(s, i, p.a)
         THEN LET body == MatchBody(s, i + Len(p.a), p.b)
              IN  IF IsSome(body)
                  THEN Matched(Val(body).end, Val(body).g1, <<>>)
                  ELSE None
         ELSE None
    ELSE LET head == MatchAttr(s, i, p.a, p.min)
         IN  IF IsSome(head)
             THEN LET body == MatchBody(s, Val(head).end, p.b)
                  IN  IF IsSome(body)
                      THEN Matched(Val(body).end, Val(head).g1, Val(body).g1)
                      ELSE None
             ELSE None

\* A replacement string is a list of literal pieces, $1 and $2.
T(lit) == [g |-> 0, lit |-> lit]
G1 == [g |-> 1, lit |-> <<>>]
G2 == [g |-> 2, lit |-> <<>>]
Expand(tpl, m) ==
    Flatten([k \in 1..Len(tpl) |->
                IF tpl[k].g = 1 THEN m.g1
                ELSE IF tpl[k].g = 2 THEN m.g2
                ELSE tpl[k].lit])

\* the leftmost match of p in s that starts at index i or later: its index,
\* or -1
NextMatch(p, s, i) ==
    LET hits == {j \in i..(Len(s) - 1) : IsSome(MatchAt(p, s, j))}
    IN  IF hits = {} THEN -1 ELSE CHOOSE h \in hits : \A j \in hits : h <= j

\* String.prototype.replace(p, tpl) under the g flag, from index i on: every
\* match, leftmost first, none overlapping, none rescanned
RECURSIVE replaceFrom(_, _, _, _)
replaceFrom(s, p, tpl, i) ==
    CHOOSE r \in
        { IF j = -1 THEN substringFrom(s, i)
          ELSE CHOOSE t \in
                   { substring(s, i, j) \o Expand(tpl, m)
                         \o replaceFrom(s, p, tpl, m.end) :
                     m \in {Val(MatchAt(p, s, j))} } : TRUE :
          j \in {NextMatch(p, s, i)} } : TRUE
replace(s, p, tpl) == CHOOSE r \in {replaceFrom(v, p, tpl, 0) : v \in {s}} : TRUE

\* the pieces of the replacement strings
Html ==
    [ AHref |-> <<"<", "a", " ", "h", "r", "e", "f", "=", "\"">>,
      AAttrs |-> <<"\"", " ", "t", "a", "r", "g", "e", "t", "=", "\"", "_", "b",
         "l", "a", "n", "k", "\"", " ", "r", "e", "l", "=", "\"", "n", "o",
         "o", "p", "e", "n", "e", "r", "\"", " ", "c", "l", "a", "s", "s",
         "=", "\"", "s", "p", "e", "c", "-", "l", "i", "n", "k", "\"", ">">>,
      AEnd |-> <<"<", "/", "a", ">">>,
      QuoteOpen |-> <<"<", "d", "i", "v", " ", "c", "l", "a", "s", "s", "=", "\"",
         "i", "n", "n", "e", "r", "-", "q", "u", "o", "t", "e", "\"", ">",
         "<", "d", "i", "v", " ", "c", "l", "a", "s", "s", "=", "\"", "i",
         "n", "n", "e", "r", "-", "q", "u", "o", "t", "e", "-", "t", "i",
         "t", "l", "e", "\"", ">">>,
      QuoteContent |-> <<"<", "/", "d", "i", "v", ">", "<", "d", "i", "v", " ",
         "c", "l", "a", "s", "s", "=", "\"", "i", "n", "n", "e", "r", "-",
         "q", "u", "o", "t", "e", "-", "c", "o", "n", "t", "e", "n", "t",
         "\"", ">">>,
      QuoteClose |-> <<"<", "/", "d", "i", "v", ">", "<", "/", "d", "i", "v", ">">> ]

\* lines 13-62: the replacements, in the order the code makes them
Replacements ==
    <<
       \* 14-17
       [p |-> AttrPair(<<"u", "r", "l">>, <<"[", "/", "u", "r", "l", "]">>),
        tpl |-> <<T(Html.AHref), G1, T(Html.AAttrs), G2, T(Html.AEnd)>>],
       \* 20-23
       [p |-> Pair(<<"[", "u", "r", "l", "]">>, <<"[", "/", "u", "r", "l",
            "]">>),
        tpl |-> <<T(Html.AHref), G1, T(Html.AAttrs), G1, T(Html.AEnd)>>],
       \* 31
       [p |-> Attr(<<"q", "u", "o", "t", "e">>, 1),
        tpl |-> <<T(Html.QuoteOpen), G1, T(Html.QuoteContent)>>],
       \* 33
       [p |-> Lit(<<"[", "/", "q", "u", "o", "t", "e", "]">>),
        tpl |-> <<T(Html.QuoteClose)>>],
       \* 36, 37
       [p |-> Lit(<<"[", "p", "r", "e", "]">>),
        tpl |-> <<>>],
       [p |-> Lit(<<"[", "/", "p", "r", "e", "]">>),
        tpl |-> <<>>],
       \* 40
       [p |-> Pair(<<"[", "b", "]">>, <<"[", "/", "b", "]">>),
        tpl |-> <<T(<<"<", "s", "t", "r", "o", "n", "g", ">">>), G1, T(<<"<",
            "/", "s", "t", "r", "o", "n", "g", ">">>)>>],
       \* 43
       [p |-> Pair(<<"[", "i", "]">>, <<"[", "/", "i", "]">>),
        tpl |-> <<T(<<"<", "e", "m", ">">>), G1, T(<<"<", "/", "e", "m",
            ">">>)>>],
       \* 46, 47
       [p |-> Lit(<<"[", "c", "o", "d", "e", "]">>),
        tpl |-> <<>>],
       [p |-> Lit(<<"[", "/", "c", "o", "d", "e", "]">>),
        tpl |-> <<>>],
       \* 50
       [p |-> Pair(<<"[", "i", "m", "g", "]">>, <<"[", "/", "i", "m", "g",
            "]">>),
        tpl |-> <<>>],
       \* 53, 54
       [p |-> Attr(<<"c", "o", "l", "o", "r">>, 0),
        tpl |-> <<>>],
       [p |-> Lit(<<"[", "/", "c", "o", "l", "o", "r", "]">>),
        tpl |-> <<>>],
       \* 57, 58
       [p |-> Attr(<<"s", "i", "z", "e">>, 0),
        tpl |-> <<>>],
       [p |-> Lit(<<"[", "/", "s", "i", "z", "e", "]">>),
        tpl |-> <<>>],
       \* 61, 62
       [p |-> Attr(<<"s", "p", "o", "i", "l", "e", "r">>, 1),
        tpl |-> <<T(Html.QuoteOpen), G1, T(Html.QuoteContent)>>],
       [p |-> Lit(<<"[", "/", "s", "p", "o", "i", "l", "e", "r", "]">>),
        tpl |-> <<T(Html.QuoteClose)>>] >>

\* the replacements from the k-th on, made one after the other
RECURSIVE replaceInTurn(_, _)
replaceInTurn(s, k) ==
    IF k > Len(Replacements) THEN s
    ELSE CHOOSE r \in
             { replaceInTurn(v, k + 1) :
               v \in {replace(s, Replacements[k].p, Replacements[k].tpl)} } : TRUE

\* lines 10-65
parseInnerBBCode(in) == trim(replaceInTurn(in, 1))

\* the second definition of extractOutermostQuotes, run to its return
ExtractStep2(e) ==
    IF e.pc = "outer" THEN FindOpen2(e)
    ELSE IF InnerContinues2(e) THEN InnerStep2(e)
    ELSE AfterInner2(e)

RECURSIVE extractOutermostQuotes2(_)
extractOutermostQuotes2(e) ==
    IF e.pc = "returned" THEN e.results
    ELSE CHOOSE r \in {extractOutermostQuotes2(n) : n \in {ExtractStep2(e)}} : TRUE

\* The file holds two modules that both export parseBBCodeSpecs, each over its
\* own extractOutermostQuotes; l says which one the import resolves to.
blocksOf(in, l) ==
    IF l = 1 THEN extractOutermostQuotes(ExStart(in))
    ELSE extractOutermostQuotes2(ExStart(in))

\* lines 129-136 (and 260-267)
parseBBCodeSpecs(in, l) ==
    LET blocks == blocksOf(in, l)
    IN  [k \in 1..Len(blocks) |->
            [title |-> blocks[k].title,
             content |-> parseInnerBBCode(blocks[k].content)]]

\* what the editor of promptBBCode can hand back
EditorTexts ==
    { <<>>,
      <<Tok.X>>,
      <<Tok.CQ>>,
      <<Tok.QA, Tok.X>>,
      <<Tok.QA, Tok.QA, Tok.X, Tok.CQ>>,
      <<Tok.QA, Tok.X, Tok.CQ>>,
      <<Tok.QA, Tok.SP, Tok.B, Tok.X, Tok.CB, Tok.COLOR, Tok.SP, Tok.CQ>>,
      <<Tok.QA, Tok.QB, Tok.X, Tok.CQ, Tok.URL, Tok.X, Tok.CURL, Tok.CQ>>,
      <<Tok.SX, Tok.X, Tok.CS, Tok.QB, Tok.CQ>>,
      <<Tok.I, Tok.QA, Tok.X, Tok.CQ>> }

\* mutant: the loop never runs again
LoopAgainNever(sp) == FALSE
\* the do ... while test of line 273
LoopAgain(sp) == Len(sp) = 0

CliInit ==
    /\ spc = "prompt"
    /\ specs = <<>>
    /\ prompted = <<>>
    /\ lib \in {1, 2}

\* line 263: await promptBBCode()
PromptBBCode ==
    /\ spc = "prompt"
    /\ Len(prompted) < MaxPrompts
    /\ \E ts \in EditorTexts : prompted' = Append(prompted, InputOf(ts))
    /\ spc' = "parse"
    /\ UNCHANGED <<specs, lib>>
    /\ UNCHANGED <<torrentVars, bbVars, miVars, sumVars, langVars, innerVars, tmpVars, debVars, ovVars, loadVars, stepVars>>

\* lines 264-273, and 275 when the loop ends
ParseAndTest ==
    /\ spc = "parse"
    /\ specs' = parseBBCodeSpecs(prompted[Len(prompted)], lib)
    /\ spc' = IF LoopAgain(specs') THEN "prompt" ELSE "returned"
    /\ UNCHANGED <<prompted, lib>>
    /\ UNCHANGED <<torrentVars, bbVars, miVars, sumVars, langVars, innerVars, tmpVars, debVars, ovVars, loadVars, stepVars>>

CliNext == PromptBBCode \/ ParseAndTest

InitCli == TorrentIdle /\ BBIdle /\ CliInit /\ MIIdle /\ SumIdle /\ LangIdle /\ InnerIdle /\ TmpIdle /\ DebIdle /\ OvIdle /\ LoadIdle /\ StepIdle
SpecCli == InitCli /\ [][CliNext]_vars

\* the blocks the k-th answer of the editor holds
BlocksOfPrompt(k) == blocksOf(prompted[k], lib)
CliReturned == spc = "returned"

\* C8: stepSpecs asks again after every answer that holds no block, and it
\* returns only a list that is not empty: one entry, with the block's title
\* and its rendered content, for each block of the first answer that holds at
\* least one block.
C8_RepromptsUntilBlocksFound ==
    /\ \A k \in 1..(Len(prompted) - 1) : BlocksOfPrompt(k) = <<>>
    /\ (spc = "prompt" /\ prompted /= <<>>) =>
           BlocksOfPrompt(Len(prompted)) = <<>>
    /\ CliReturned =>
           LET blocks == BlocksOfPrompt(Len(prompted))
           IN  /\ specs /= <<>>
               /\ Len(specs) = Len(blocks)
               /\ \A j \in 1..Len(blocks) :
                      /\ specs[j].title = blocks[j].title
                      /\ specs[j].content = parseInnerBBCode(blocks[j].content)
C8_Witness ==
    /\ CliReturned
    /\ Len(prompted) = 3
    /\ Len(specs) = 2


-----------------------------------------------------------------------------
(* parseMediaInfo and toStructured: src/lib/utils/mediainfo-parser.ts        *)

MaxLines == 3       \* lines of one generated report

\* String.prototype.replace(re, s) with the g flag, for a literal pattern:
\* s from 0-based index i on, every occurrence of pat replaced
RECURSIVE replaceAllFrom(_, _, _, _)
replaceAllFrom(s, pat, by, i) ==
    CHOOSE r \in
        { IF j = -1 THEN substringFrom(s, i)
          ELSE substring(s, i, j) \o by \o replaceAllFrom(s, pat, by, j + Len(pat)) :
          j \in {indexOf(s, pat, i)} } : TRUE
replaceAll(s, pat, by) == CHOOSE r \in {replaceAllFrom(v, pat, by, 0) : v \in {s}} : TRUE

\* .replace(/\r\n?/g, '\n'): s from 0-based index i on
RECURSIVE replaceCRFrom(_, _)
replaceCRFrom(s, i) ==
    CHOOSE r \in
        { IF j = -1 THEN substringFrom(s, i)
          ELSE substring(s, i, j) \o <<"LF">>
                   \o replaceCRFrom(s, IF OccursAt(s, <<"LF">>, j + 1) THEN j + 2 ELSE j + 1) :
          j \in {indexOf(s, <<"CR">>, i)} } : TRUE
replaceCR(s) == CHOOSE r \in {replaceCRFrom(v, 0) : v \in {s}} : TRUE

\* lines 67-71: "BSL" is the backslash; /\xc2\xa0/ is U+00C2 followed by U+00A0
normalize(t) ==
    LET looksEscaped == indexOf(t, <<"BSL", "n">>, 0) /= -1
        unescaped == IF looksEscaped THEN replaceAll(t, <<"BSL", "n">>, <<"LF">>) ELSE t
    IN  trim(replaceAll(replaceCR(unescaped), <<"U00C2", "NBSP">>, <<" ">>))

\* the end (1-based, inclusive) of the run of white space that starts at p
RECURSIVE SpaceRunEnd(_, _)
SpaceRunEnd(s, p) ==
    IF p < Len(s) /\ IsSpace(s[p + 1]) THEN SpaceRunEnd(s, p + 1) ELSE p

\* /\n\s*\n+/ tried at 1-based p: a line feed, white space, and line feeds;
\* \s* and \n+ are greedy, so the match ends at the last line feed of the run.
\* The end of the match, or 0 when there is none.
SeparatorEnd(s, p) ==
    IF s[p] /= "LF" THEN 0
    ELSE LET lfs == {q \in (p + 1)..SpaceRunEnd(s, p) : s[q] = "LF"}
         IN  IF lfs = {} THEN 0 ELSE CHOOSE q \in lfs : \A r \in lfs : r <= q

\* the first place (1-based) at or after from where /\n\s*\n+/ matches, or 0
NextSeparator(s, from) ==
    LET hits == {p \in from..Len(s) : SeparatorEnd(s, p) /= 0}
    IN  IF hits = {} THEN 0 ELSE CHOOSE p \in hits : \A q \in hits : p <= q

\* String.prototype.split(/\n\s*\n+/): the pieces of s from 1-based from on
RECURSIVE splitBlocksFrom(_, _)
splitBlocksFrom(s, from) ==
    CHOOSE r \in
        { IF p = 0 THEN <<SubSeq(s, from, Len(s))>>
          ELSE <<SubSeq(s, from, p - 1)>> \o splitBlocksFrom(s, SeparatorEnd(s, p) + 1) :
          p \in {NextSeparator(s, from)} } : TRUE
splitBlocks(s) == CHOOSE r \in {splitBlocksFrom(v, 1) : v \in {s}} : TRUE

\* String.prototype.split(sep) for a one-unit separator: the pieces of s from
\* 0-based index i on
RECURSIVE splitOnFrom(_, _, _)
splitOnFrom(s, sep, i) ==
    CHOOSE r \in
        { IF j = -1 THEN <<substringFrom(s, i)>>
          ELSE <<substring(s, i, j)>> \o splitOnFrom(s, sep, j + 1) :
          j \in {indexOf(s, <<sep>>, i)} } : TRUE
splitOn(s, sep) == CHOOSE r \in {splitOnFrom(v, sep, 0) : v \in {s}} : TRUE

\* lines 77-80: block.split('\n').map(trim).filter(Boolean)
linesOf(block) ==
    LET ls == splitOn(block, "LF")
    IN  SelectSeq([i \in 1..Len(ls) |-> trim(ls[i])], LAMBDA l : l /= <<>>)

IsDigit(c) == c \in {"0", "1", "2", "3", "4", "5", "6", "7", "8", "9"}
DigitValue(c) ==
    CASE c = "0" -> 0 [] c = "1" -> 1 [] c = "2" -> 2 [] c = "3" -> 3 [] c = "4" -> 4
      [] c = "5" -> 5 [] c = "6" -> 6 [] c = "7" -> 7 [] c = "8" -> 8 [] c = "9" -> 9

\* Number(digits)
RECURSIVE Number(_)
Number(ds) ==
    IF ds = <<>> THEN 0 ELSE 10 * Number(SubSeq(ds, 1, Len(ds) - 1)) + DigitValue(ds[Len(ds)])

\* the number of digits (of white space) that end at 1-based position e,
\* exclusive
RECURSIVE DigitsBefore(_, _)
DigitsBefore(s, e) ==
    IF e > 1 /\ IsDigit(s[e - 1]) THEN 1 + DigitsBefore(s, e - 1) ELSE 0
RECURSIVE SpacesBefore(_, _)
SpacesBefore(s, e) ==
    IF e > 1 /\ IsSpace(s[e - 1]) THEN 1 + SpacesBefore(s, e - 1) ELSE 0

\* line 84: header.match(/^(.+?)\s*(?:#(\d+))?$/).  Group 1 is lazy: it is
\* the shortest non-empty prefix after which only white space and then,
\* possibly, "#" and digits up to the end follow.  The length of group 1 and
\* the start of group 2 (0 when group 2 did not take part).
HeaderMatch(header) ==
    LET n == Len(header)
        d == DigitsBefore(header, n + 1)
        hash == n - d
        w == IF hash >= 1 THEN SpacesBefore(header, hash) ELSE 0
    IN  IF d >= 1 /\ hash >= 2 /\ header[hash] = "#"
        THEN [g1 |-> Max(1, hash - 1 - w), g2 |-> hash + 1]
        ELSE [g1 |-> n - SpacesBefore(header, n + 1), g2 |-> 0]

\* lines 85-86
baseOf(header) == trim(SubSeq(header, 1, HeaderMatch(header).g1))
indexOfHeader(header) ==
    IF HeaderMatch(header).g2 /= 0
    THEN Some(Number(SubSeq(header, HeaderMatch(header).g2, Len(header))))
    ELSE None

\* The objects `data` and `result` are created by {} and so inherit the
\* members of Object.prototype: `key in data` holds for them and data[key],
\* result[key] read them.  The model's code units can spell one of them.
K_constructor == <<"c", "o", "n", "s", "t", "r", "u", "c", "t", "o", "r">>
PrototypeKeys == {K_constructor}
\* what reading an inherited member gives: a function, written as one unit
InheritedMember == <<"function">>

\* an own property of data: a string, or an array (many)
HasOwn(data, key) == \E i \in 1..Len(data) : data[i].key = key
OwnAt(data, key) == CHOOSE i \in 1..Len(data) : data[i].key = key

\* lines 100-105
putValue(data, key, value) ==
    IF HasOwn(data, key)
    THEN [data EXCEPT ![OwnAt(data, key)] =
              [key |-> key, many |-> TRUE, vals |-> Append(@.vals, value)]]
    ELSE IF key \in PrototypeKeys
    THEN Append(data, [key |-> key, many |-> TRUE, vals |-> <<InheritedMember, value>>])
    ELSE Append(data, [key |-> key, many |-> FALSE, vals |-> <<value>>])

\* lines 90-106: the lines after the header, from line i on
RECURSIVE dataFrom(_, _, _)
dataFrom(lines, i, data) ==
    IF i > Len(lines) THEN data
    ELSE LET line == lines[i]
             colon == indexOf(line, <<":">>, 0)
             key == trim(substring(line, 0, colon))
             value == trim(substringFrom(line, colon + 1))
         IN  IF colon = -1 \/ key = <<>>
             THEN dataFrom(lines, i + 1, data)
             ELSE dataFrom(lines, i + 1, putValue(data, key, value))

\* line 108
sectionOf(lines) ==
    [header |-> lines[1], base |-> baseOf(lines[1]), index |-> indexOfHeader(lines[1]),
     data |-> dataFrom(lines, 2, <<>>)]

\* result, a Record<string, MediaInfoSection[]>: its own keys in the order
\* Object.keys gives them (the order of creation; no key of the model is an
\* array index), or that the call threw
HasKey(res, key) == \E i \in 1..Len(res) : res[i].key = key
KeyAt(res, key) == CHOOSE i \in 1..Len(res) : res[i].key = key

\* mutant: sections are grouped under the header, not under the base name
pushSectionByHeader(res, section) ==
    IF HasKey(res, section.header)
    THEN [res EXCEPT ![KeyAt(res, section.header)].sections = Append(@, section)]
    ELSE Append(res, [key |-> section.header, sections |-> <<section>>])

\* line 109 where it does not throw: (result[base] ??= []).push(section)
pushSection(res, section) ==
    IF HasKey(res, section.base)
    THEN [res EXCEPT ![KeyAt(res, section.base)].sections = Append(@, section)]
    ELSE Append(res, [key |-> section.base, sections |-> <<section>>])

\* line 109 throws a TypeError when result[base] is an inherited member: it
\* is not nullish, so no array is assigned, and it has no push
pushThrows(res, section) ==
    ~HasKey(res, section.base) /\ section.base \in PrototypeKeys

\* lines 76-110: the blocks from block i on
RECURSIVE parseBlocks(_, _, _)
parseBlocks(blocks, i, res) ==
    IF i > Len(blocks) THEN [threw |-> FALSE, result |-> res]
    ELSE LET lines == linesOf(blocks[i])
         IN  IF lines = <<>> THEN parseBlocks(blocks, i + 1, res)
             ELSE IF pushThrows(res, sectionOf(lines))
                  THEN [threw |-> TRUE, result |-> res]
             ELSE parseBlocks(blocks, i + 1, pushSection(res, sectionOf(lines)))

\* lines 64-113
parseMediaInfo(t) ==
    IF t = <<>> THEN [threw |-> FALSE, result |-> <<>>]
    ELSE parseBlocks(splitBlocks(normalize(t)), 1, <<>>)

\* parsed[key], for a key that Object.prototype does not have
sectionsOf(res, key) == IF HasKey(res, key) THEN res[KeyAt(res, key)].sections ELSE <<>>

\* String.prototype.startsWith
startsWith(s, prefix) == OccursAt(s, prefix, 0)

\* lines 130-132: Object.keys(parsed).filter(startsWith).flatMap
RECURSIVE sectionsWithPrefix(_, _)
sectionsWithPrefix(res, prefix) ==
    IF res = <<>> THEN <<>>
    ELSE (IF startsWith(Head(res).key, prefix) THEN Head(res).sections ELSE <<>>)
         \o sectionsWithPrefix(Tail(res), prefix)

\* mutant: the last value of an aggregated field
getFirstLast(section, key) ==
    IF ~HasOwn(section.data, key) THEN None
    ELSE LET own == section.data[OwnAt(section.data, key)]
         IN  IF ~own.many /\ own.vals[1] = <<>> THEN None
             ELSE Some(own.vals[Len(own.vals)])
\* lines 118-121, applied to section.data[key]
getFirst(section, key) ==
    IF ~HasOwn(section.data, key) THEN None
    ELSE LET own == section.data[OwnAt(section.data, key)]
         IN  IF ~own.many /\ own.vals[1] = <<>> THEN None ELSE Some(own.vals[1])

\* the section names and keys toStructured reads
Key ==
    [ General |-> <<"G", "e", "n", "e", "r", "a", "l">>,
      Video |-> <<"V", "i", "d", "e", "o">>,
      Audio |-> <<"A", "u", "d", "i", "o">>,
      Text |-> <<"T", "e", "x", "t">>,
      AudioHash |-> <<"A", "u", "d", "i", "o", " ", "#">>,
      TextHash |-> <<"T", "e", "x", "t", " ", "#">>,
      CompleteName |-> <<"C", "o", "m", "p", "l", "e", "t", "e", " ", "n", "a",
         "m", "e">>,
      Format |-> <<"F", "o", "r", "m", "a", "t">>,
      Duration |-> <<"D", "u", "r", "a", "t", "i", "o", "n">>,
      FileSize |-> <<"F", "i", "l", "e", " ", "s", "i", "z", "e">>,
      OverallBitRate |-> <<"O", "v", "e", "r", "a", "l", "l", " ", "b", "i", "t",
         " ", "r", "a", "t", "e">>,
      FormatProfile |-> <<"F", "o", "r", "m", "a", "t", " ", "p", "r", "o", "f",
         "i", "l", "e">>,
      CodecID |-> <<"C", "o", "d", "e", "c", " ", "I", "D">>,
      Width |-> <<"W", "i", "d", "t", "h">>,
      Height |-> <<"H", "e", "i", "g", "h", "t">>,
      BitDepth |-> <<"B", "i", "t", " ", "d", "e", "p", "t", "h">>,
      HDRFormat |-> <<"H", "D", "R", " ", "f", "o", "r", "m", "a", "t">>,
      Transfer |-> <<"T", "r", "a", "n", "s", "f", "e", "r", " ", "c", "h", "a",
         "r", "a", "c", "t", "e", "r", "i", "s", "t", "i", "c", "s">>,
      FrameRate |-> <<"F", "r", "a", "m", "e", " ", "r", "a", "t", "e">>,
      BitRate |-> <<"B", "i", "t", " ", "r", "a", "t", "e">>,
      Channels |-> <<"C", "h", "a", "n", "n", "e", "l", "(", "s", ")">>,
      Title |-> <<"T", "i", "t", "l", "e">>,
      Language |-> <<"L", "a", "n", "g", "u", "a", "g", "e">>,
      CommercialName |-> <<"C", "o", "m", "m", "e", "r", "c", "i", "a", "l", " ",
         "n", "a", "m", "e">> ]

\* lines 141-149
generalOf(g) ==
    [file_name |-> getFirst(g, Key.CompleteName), format |-> getFirst(g, Key.Format),
     duration |-> getFirst(g, Key.Duration), file_size |-> getFirst(g, Key.FileSize),
     bit_rate |-> getFirst(g, Key.OverallBitRate)]
\* lines 151-162
videoOf(v) ==
    [format |-> getFirst(v, Key.Format), format_profile |-> getFirst(v, Key.FormatProfile),
     codec |-> getFirst(v, Key.CodecID), width |-> getFirst(v, Key.Width),
     height |-> getFirst(v, Key.Height), bit_depth |-> getFirst(v, Key.BitDepth),
     hdr_format |-> getFirst(v, Key.HDRFormat),
     transfer_characteristics |-> getFirst(v, Key.Transfer),
     frame_rate |-> getFirst(v, Key.FrameRate), bit_rate |-> getFirst(v, Key.BitRate)]
\* lines 165-173
audioOf(a) ==
    [format |-> getFirst(a, Key.Format), format_profile |-> getFirst(a, Key.FormatProfile),
     channels |-> getFirst(a, Key.Channels), bit_rate |-> getFirst(a, Key.BitRate),
     title |-> getFirst(a, Key.Title), language |-> getFirst(a, Key.Language),
     commercial_name |-> getFirst(a, Key.CommercialName)]
\* lines 176-180
textOf(t) ==
    [format |-> getFirst(t, Key.Format), title |-> getFirst(t, Key.Title),
     language |-> getFirst(t, Key.Language)]

\* lines 126-183; null is None
toStructured(res) ==
    LET general == sectionsOf(res, Key.General)
        videos == sectionsOf(res, Key.Video)
        audios == sectionsOf(res, Key.Audio) \o sectionsWithPrefix(res, Key.AudioHash)
        texts == sectionsOf(res, Key.Text) \o sectionsWithPrefix(res, Key.TextHash)
    IN  [general |-> IF general /= <<>> THEN Some(generalOf(general[1])) ELSE None,
         video |-> IF videos /= <<>> THEN Some([i \in 1..Len(videos) |-> videoOf(videos[i])])
                   ELSE None,
         audio |-> IF audios /= <<>> THEN Some([i \in 1..Len(audios) |-> audioOf(audios[i])])
                   ELSE None,
         text |-> IF texts /= <<>> THEN Some([i \in 1..Len(texts) |-> textOf(texts[i])])
                  ELSE None]

-----------------------------------------------------------------------------
(* The reports: lines, joined by one of the line breaks the parser accepts  *)

\* a line of a report: its text, and what it is when it heads a block (base,
\* index) and when it follows the header (key, value; no key: skipped)
LineTok(str, base, index, key, value) ==
    [str |-> str, base |-> base, index |-> index, key |-> key, value |-> value]

\* the lines the reports are written from
Line ==
    [ A |-> LineTok(<<"A", "u", "d", "i", "o">>, <<"A", "u", "d", "i", "o">>, None,
         <<>>, <<>>),
      A2 |-> LineTok(<<"A", "u", "d", "i", "o", " ", "#", "2">>, <<"A", "u", "d",
         "i", "o">>, Some(2), <<>>, <<>>),
      Fa |-> LineTok(<<"F", "o", "r", "m", "a", "t", " ", ":", " ", "a">>, <<"F",
         "o", "r", "m", "a", "t", " ", ":", " ", "a">>, None, <<"F", "o",
         "r", "m", "a", "t">>, <<"a">>),
      Fb |-> LineTok(<<"F", "o", "r", "m", "a", "t", ":", "b", ":", "c">>, <<"F",
         "o", "r", "m", "a", "t", ":", "b", ":", "c">>, None, <<"F", "o",
         "r", "m", "a", "t">>, <<"b", ":", "c">>),
      Ctor |-> LineTok(<<"c", "o", "n", "s", "t", "r", "u", "c", "t", "o", "r">>,
         <<"c", "o", "n", "s", "t", "r", "u", "c", "t", "o", "r">>, None,
         <<>>, <<>>),
      Ck |-> LineTok(<<"c", "o", "n", "s", "t", "r", "u", "c", "t", "o", "r", ":",
         " ", "d">>, <<"c", "o", "n", "s", "t", "r", "u", "c", "t", "o", "r",
         ":", " ", "d">>, None, <<"c", "o", "n", "s", "t", "r", "u", "c",
         "t", "o", "r">>, <<"d">>),
      G |-> LineTok(<<"G", "e", "n", "e", "r", "a", "l">>, <<"G", "e", "n", "e", "r", "a", "l">>, None, <<>>, <<>>),
      V |-> LineTok(<<"V", "i", "d", "e", "o">>, <<"V", "i", "d", "e", "o">>, None, <<>>, <<>>),
      T |-> LineTok(<<"T", "e", "x", "t">>, <<"T", "e", "x", "t">>, None, <<>>, <<>>),
      Blank |-> LineTok(<<>>, <<>>, None, <<>>, <<>>) ]

ReportLines ==
    {Line.A, Line.A2, Line.Fa, Line.Fb, Line.Ctor, Line.Ck, Line.G, Line.V, Line.T,
     Line.Blank}

\* the examples of the specification, whatever MaxLines is
NamedReports ==
    { <<Line.A, Line.Fa, Line.Blank, Line.A2, Line.Fb>>,
      <<Line.A2, Line.Fb, Line.Blank, Line.Blank, Line.A, Line.Fa, Line.Blank, Line.A2>>,
      <<Line.A, Line.Fa, Line.Fb, Line.Fa>>,
      <<Line.A, Line.Fa, Line.Blank, Line.Ck, Line.Ck>>,
      <<Line.A2, Line.Fa, Line.Fb, Line.Blank, Line.A, Line.Fb, Line.Fa>>,
      <<Line.G, Line.Fa, Line.Fb, Line.Blank, Line.G, Line.Fb>>,
      <<Line.G, Line.Fb, Line.Blank, Line.V, Line.Fa, Line.Fb, Line.Blank, Line.T,
        Line.Fb, Line.Fa>> }
Reports == SeqsUpTo(ReportLines, MaxLines) \cup NamedReports

\* the line breaks: \n, \r\n, and the escaped form (a backslash and an n)
LineBreaks == {<<"LF">>, <<"CR", "LF">>, <<"BSL", "n">>}
TextOf(rep, eol) == join([i \in 1..Len(rep) |-> rep[i].str], eol)

MIInit ==
    /\ report \in Reports
    /\ text \in {TextOf(report, eol) : eol \in LineBreaks}
    /\ mpc = "start"
    /\ parsed = <<>>
    /\ structured = <<>>

\* parseMediaInfo(text), lines 64-113
MIParse ==
    /\ mpc = "start"
    /\ LET r == parseMediaInfo(text)
       IN  /\ mpc' = IF r.threw THEN "threw" ELSE "parsed"
           /\ parsed' = IF r.threw THEN <<>> ELSE r.result
    /\ UNCHANGED <<report, text, structured>>
    /\ UNCHANGED <<torrentVars, bbVars, cliVars, sumVars, langVars, innerVars, tmpVars, debVars, ovVars, loadVars, stepVars>>

\* toStructured(parsed), lines 126-183
MIStructure ==
    /\ mpc = "parsed"
    /\ structured' = Some(toStructured(parsed))
    /\ mpc' = "structured"
    /\ UNCHANGED <<report, text, parsed>>
    /\ UNCHANGED <<torrentVars, bbVars, cliVars, sumVars, langVars, innerVars, tmpVars, debVars, ovVars, loadVars, stepVars>>

MINext == MIParse \/ MIStructure

InitMediaInfo == TorrentIdle /\ BBIdle /\ CliIdle /\ MIInit /\ SumIdle /\ LangIdle /\ InnerIdle /\ TmpIdle /\ DebIdle /\ OvIdle /\ LoadIdle /\ StepIdle
SpecMediaInfo == InitMediaInfo /\ [][MINext]_vars

-----------------------------------------------------------------------------
(* generateSummary: src/lib/utils/mediainfo-parser.ts                        *)

\* a string | undefined that `if (x)` takes for true
Truthy(o) == IsSome(o) /\ Val(o) /= <<>>

\* parseInt(s.replace(/[^\d]/g, ''), 10): NaN is None
parseIntOfDigits(s) ==
    IF SelectSeq(s, IsDigit) = <<>> THEN None ELSE Some(Number(SelectSeq(s,
        IsDigit)))

\* lines 188-207
parseChannels(channelStr) ==
    IF ~Truthy(channelStr) THEN <<>>
    ELSE LET num == parseIntOfDigits(Val(channelStr))
         IN  IF num = None THEN Val(channelStr)
             ELSE CASE Val(num) = 1 -> <<"1", ".", "0">>
                    [] Val(num) = 2 -> <<"2", ".", "0">>
                    [] Val(num) = 6 -> <<"5", ".", "1">>
                    [] Val(num) = 7 -> <<"6", ".", "1">>
                    [] Val(num) = 8 -> <<"7", ".", "1">>
                    [] OTHER -> NumberToString(Val(num)) \o <<"c", "h">>

\* lines 212-223
getResolution(width, height) ==
    IF ~Truthy(height) THEN <<>>
    ELSE LET h == parseIntOfDigits(Val(height))
         IN  IF h = None THEN <<>>
             ELSE IF Val(h) >= 2160 THEN <<"4", "K">>
             ELSE IF Val(h) >= 1080 THEN <<"1", "0", "8", "0", "p">>
             ELSE IF Val(h) >= 720 THEN <<"7", "2", "0", "p">>
             ELSE IF Val(h) >= 576 THEN <<"5", "7", "6", "p">>
             ELSE IF Val(h) >= 480 THEN <<"4", "8", "0", "p">>
             ELSE NumberToString(Val(h)) \o <<"p">>

\* mutant: the transfer characteristics are looked at before the HDR format
getHDRInfoTransferFirst(video) ==
    IF video = None \/ Val(video) = <<>> THEN <<>>
    ELSE LET v == Val(video)[1]
             transfer == IF IsSome(v.transfer_characteristics)
                         THEN toLowerCase(Val(v.transfer_characteristics)) ELSE <<>>
         IN  IF includes(transfer, <<"p", "q">>) \/ includes(transfer, <<"s",
             "m", "p", "t", "e", " ", "s", "t", " ", "2", "0", "8", "4">>)
             THEN <<"H", "D", "R", "1", "0">>
             ELSE IF includes(transfer, <<"h", "l", "g">>) THEN <<"H", "L",
                 "G">>
             ELSE IF Truthy(v.hdr_format)
             THEN (IF includes(toLowerCase(Val(v.hdr_format)), <<"d", "o", "l",
                 "b", "y", " ", "v", "i", "s", "i", "o", "n">>) THEN <<"D",
                 "V">>
                   ELSE IF includes(toLowerCase(Val(v.hdr_format)), <<"h", "d",
                       "r", "1", "0", "+">>) THEN <<"H", "D", "R", "1", "0",
                       "+">>
                   ELSE IF includes(toLowerCase(Val(v.hdr_format)), <<"h", "d",
                       "r", "1", "0">>) THEN <<"H", "D", "R", "1", "0">>
                   ELSE IF includes(toLowerCase(Val(v.hdr_format)), <<"h", "l",
                       "g">>) THEN <<"H", "L", "G">>
                   ELSE <<"H", "D", "R">>)
             ELSE <<>>
\* lines 228-245
getHDRInfo(video) ==
    IF video = None \/ Val(video) = <<>> THEN <<>>
    ELSE LET v == Val(video)[1]
             transfer == IF IsSome(v.transfer_characteristics)
                         THEN toLowerCase(Val(v.transfer_characteristics)) ELSE <<>>
         IN  IF Truthy(v.hdr_format)
             THEN (IF includes(toLowerCase(Val(v.hdr_format)), <<"d", "o", "l",
                 "b", "y", " ", "v", "i", "s", "i", "o", "n">>) THEN <<"D",
                 "V">>
                   ELSE IF includes(toLowerCase(Val(v.hdr_format)), <<"h", "d",
                       "r", "1", "0", "+">>) THEN <<"H", "D", "R", "1", "0",
                       "+">>
                   ELSE IF includes(toLowerCase(Val(v.hdr_format)), <<"h", "d",
                       "r", "1", "0">>) THEN <<"H", "D", "R", "1", "0">>
                   ELSE IF includes(toLowerCase(Val(v.hdr_format)), <<"h", "l",
                       "g">>) THEN <<"H", "L", "G">>
                   ELSE <<"H", "D", "R">>)
             ELSE IF includes(transfer, <<"p", "q">>) \/ includes(transfer,
                 <<"s", "m", "p", "t", "e", " ", "s", "t", " ", "2", "0", "8",
                 "4">>)
             THEN <<"H", "D", "R", "1", "0">>
             ELSE IF includes(transfer, <<"h", "l", "g">>) THEN <<"H", "L",
                 "G">>
             ELSE <<>>

\* a Set<string> in insertion order: add(x)
addUnique(seq, x) == IF \E i \in 1..Len(seq) : seq[i] = x THEN seq ELSE Append(seq, x)

\* lines 250-262: the texts from the i-th on
RECURSIVE subtitleLanguagesFrom(_, _, _)
subtitleLanguagesFrom(texts, i, languages) ==
    IF i > Len(texts) THEN languages
    ELSE IF Truthy(texts[i].language)
    THEN subtitleLanguagesFrom(texts, i + 1,
             addUnique(languages, trim(splitOn(Val(texts[i].language), "(")[1])))
    ELSE subtitleLanguagesFrom(texts, i + 1, languages)
getSubtitleLanguages(texts) ==
    IF texts = None \/ Val(texts) = <<>> THEN <<>>
    ELSE subtitleLanguagesFrom(Val(texts), 1, <<>>)

\* lines 272-298: what the video block pushes to parts
videoParts(st) ==
    LET v == Val(st.video)[1]
        res == getResolution(v.width, v.height)
        hdr == getHDRInfo(st.video)
    IN  (IF Truthy(v.format) THEN <<Val(v.format)>> ELSE <<>>)
        \o (IF Truthy(v.bit_depth) /\ ~includes(Val(v.bit_depth), <<"8">>)
            THEN <<replaceFirst(replaceFirst(Val(v.bit_depth), <<" ", "b", "i",
                "t", "s">>, <<"-", "b", "i", "t">>),
                                <<" ", "b", "i", "t">>, <<"-", "b", "i",
                                    "t">>)>>
            ELSE <<>>)
        \o (IF res /= <<>> THEN <<res>> ELSE <<>>)
        \o (IF hdr /= <<>> THEN <<hdr>> ELSE <<>>)

\* x?.toLowerCase().includes(needle), which undefined makes false
lowerIncludes(o, needle) == IsSome(o) /\ includes(toLowerCase(Val(o)), needle)

\* mutant: the format is tested for AC-3 before it is tested for E-AC-3
audioNameAc3First(a) ==
    IF lowerIncludes(a.commercial_name, <<"a", "t", "m", "o",
        "s">>) THEN <<"A", "t", "m", "o", "s">>
    ELSE IF lowerIncludes(a.commercial_name, <<"t", "r", "u", "e", "h",
        "d">>) THEN <<"T", "r", "u", "e", "H", "D">>
    ELSE IF lowerIncludes(a.commercial_name, <<"d", "t", "s">>)
    THEN (IF includes(Val(a.commercial_name), <<"H", "D">>) THEN <<"D", "T",
        "S", "-", "H", "D", " ", "M", "A">> ELSE <<"D", "T", "S">>)
    ELSE IF Truthy(a.format)
    THEN LET fmt == toUpperCase(Val(a.format))
         IN  IF includes(fmt, <<"A", "C", "-", "3">>) \/ fmt = <<"A", "C",
                 "3">> THEN <<"D", "D">>
             ELSE IF includes(fmt, <<"E", "-", "A", "C", "-",
             "3">>) \/ includes(fmt, <<"E", "A", "C", "3">>) THEN <<"D", "D",
             "+">>
             ELSE IF includes(fmt, <<"A", "A", "C">>) THEN <<"A", "A", "C">>
             ELSE IF includes(fmt, <<"F", "L", "A", "C">>) THEN <<"F", "L",
                 "A", "C">>
             ELSE IF includes(fmt, <<"O", "P", "U", "S">>) THEN <<"O", "p",
                 "u", "s">>
             ELSE IF includes(fmt, <<"T", "R", "U", "E", "H",
                 "D">>) THEN <<"T", "r", "u", "e", "H", "D">>
             ELSE IF includes(fmt, <<"D", "T", "S">>) THEN <<"D", "T", "S">>
             ELSE Val(a.format)
    ELSE <<>>
\* lines 305-333: the descriptor of one audio stream, before the channels
audioName(a) ==
    IF lowerIncludes(a.commercial_name, <<"a", "t", "m", "o",
        "s">>) THEN <<"A", "t", "m", "o", "s">>
    ELSE IF lowerIncludes(a.commercial_name, <<"t", "r", "u", "e", "h",
        "d">>) THEN <<"T", "r", "u", "e", "H", "D">>
    ELSE IF lowerIncludes(a.commercial_name, <<"d", "t", "s">>)
    THEN (IF includes(Val(a.commercial_name), <<"H", "D">>) THEN <<"D", "T",
        "S", "-", "H", "D", " ", "M", "A">> ELSE <<"D", "T", "S">>)
    ELSE IF Truthy(a.format)
    THEN LET fmt == toUpperCase(Val(a.format))
         IN  IF includes(fmt, <<"E", "-", "A", "C", "-",
             "3">>) \/ includes(fmt, <<"E", "A", "C", "3">>) THEN <<"D", "D",
             "+">>
             ELSE IF includes(fmt, <<"A", "C", "-", "3">>) \/ fmt = <<"A", "C",
                 "3">> THEN <<"D", "D">>
             ELSE IF includes(fmt, <<"A", "A", "C">>) THEN <<"A", "A", "C">>
             ELSE IF includes(fmt, <<"F", "L", "A", "C">>) THEN <<"F", "L",
                 "A", "C">>
             ELSE IF includes(fmt, <<"O", "P", "U", "S">>) THEN <<"O", "p",
                 "u", "s">>
             ELSE IF includes(fmt, <<"T", "R", "U", "E", "H",
                 "D">>) THEN <<"T", "r", "u", "e", "H", "D">>
             ELSE IF includes(fmt, <<"D", "T", "S">>) THEN <<"D", "T", "S">>
             ELSE Val(a.format)
    ELSE <<>>

\* lines 304-340: audioDesc at the end of one iteration
audioDesc(a) ==
    IF parseChannels(a.channels) /= <<>> /\ audioName(a) /= <<>>
    THEN audioName(a) \o <<" ">> \o parseChannels(a.channels)
    ELSE audioName(a)

\* lines 303-345: audioFormats, the streams from the i-th on
RECURSIVE audioFormatsFrom(_, _, _)
audioFormatsFrom(audio, i, audioFormats) ==
    IF i > Len(audio) THEN audioFormats
    ELSE IF audioDesc(audio[i]) /= <<>>
    THEN audioFormatsFrom(audio, i + 1, addUnique(audioFormats, audioDesc(audio[i])))
    ELSE audioFormatsFrom(audio, i + 1, audioFormats)

\* mutant: every distinct descriptor is shown
audioPartAll(st) == join(audioFormatsFrom(Val(st.audio), 1, <<>>), <<" ", "+",
    " ">>)
\* line 349: audioFormats.slice(0, 2).join(' + ')
audioPart(st) ==
    join(SubSeq(audioFormatsFrom(Val(st.audio), 1, <<>>), 1,
                Min(2, Len(audioFormatsFrom(Val(st.audio), 1, <<>>)))), <<" ",
                    "+", " ">>)

\* mutant: the list is cut when more than 3 languages are present
subInfoCutAt3(st) ==
    LET count == Len(Val(st.text))
        langs == getSubtitleLanguages(st.text)
    IN  NumberToString(count) \o <<" ", "S", "u",
        "b">> \o (IF count /= 1 THEN <<"s">> ELSE <<>>)
        \o (IF Len(langs) > 0 /\ Len(langs) <= 3
            THEN <<" ", "(">> \o join(langs, <<",", " ">>) \o <<")">>
            ELSE IF Len(langs) > 3
            THEN <<" ", "(">> \o join(SubSeq(langs, 1, 3), <<",",
                " ">>) \o <<".", ".", ".", ")">>
            ELSE <<>>)
\* lines 354-363
subInfo(st) ==
    LET count == Len(Val(st.text))
        langs == getSubtitleLanguages(st.text)
    IN  NumberToString(count) \o <<" ", "S", "u",
        "b">> \o (IF count /= 1 THEN <<"s">> ELSE <<>>)
        \o (IF Len(langs) > 0 /\ Len(langs) <= 4
            THEN <<" ", "(">> \o join(langs, <<",", " ">>) \o <<")">>
            ELSE IF Len(langs) > 4
            THEN <<" ", "(">> \o join(SubSeq(langs, 1, 3), <<",",
                " ">>) \o <<".", ".", ".", ")">>
            ELSE <<>>)

\* structured.video?.length and the like
NonEmptyList(o) == IsSome(o) /\ Val(o) /= <<>>

\* the bounds of the inputs of generateSummary
MaxAudio == 3
MaxTexts == 2

\* the streams toStructured returns, with the fields generateSummary reads
VideoStream(format, bit_depth, height, hdr_format, transfer) ==
    [format |-> format, format_profile |-> None, codec |-> None, width |-> None,
     height |-> height, bit_depth |-> bit_depth, hdr_format |-> hdr_format,
     transfer_characteristics |-> transfer, frame_rate |-> None, bit_rate |-> None]
AudioStream(commercial_name, format, channels) ==
    [format |-> format, format_profile |-> None, channels |-> channels,
     bit_rate |-> None, title |-> None, language |-> None,
     commercial_name |-> commercial_name]
TextStream(language) == [format |-> None, title |-> None, language |-> language]

\* "HDR format" values and the marker the priority list gives each
Hdr ==
    [ DVPlus |-> [str |-> <<"D", "o", "l", "b", "y", " ", "V", "i", "s", "i",
        "o", "n", " ", "/", " ", "H", "D", "R", "1", "0", "+">>,
        marker |-> <<"D", "V">>],
      DVUpper |-> [str |-> <<"D", "O", "L", "B", "Y", " ", "V", "I", "S", "I",
          "O", "N", " ", "/", " ", "H", "L", "G">>, marker |-> <<"D", "V">>],
      Plus |-> [str |-> <<"H", "D", "R", "1", "0", "+", " ", "P", "r", "o",
          "f", "i", "l", "e", " ", "B", " ", "/", " ", "H", "D", "R", "1",
          "0">>, marker |-> <<"H", "D", "R", "1", "0", "+">>],
      Ten |-> [str |-> <<"S", "M", "P", "T", "E", " ", "S", "T", " ", "2", "0",
          "8", "6", ",", " ", "H", "D", "R", "1", "0", " ", "/", " ", "H", "L",
          "G">>, marker |-> <<"H", "D", "R", "1", "0">>],
      Hlg |-> [str |-> <<"H", "L", "G">>, marker |-> <<"H", "L", "G">>],
      Vivid |-> [str |-> <<"H", "D", "R", " ", "V", "i", "v", "i", "d">>,
          marker |-> <<"H", "D", "R">>] ]
HdrLabels == {Hdr.DVPlus, Hdr.DVUpper, Hdr.Plus, Hdr.Ten, Hdr.Hlg, Hdr.Vivid}

\* "Transfer characteristics" values and the marker the fallback gives each
Transfer ==
    [ PQ |-> [str |-> <<"P", "Q">>, marker |-> <<"H", "D", "R", "1", "0">>],
      ST2084 |-> [str |-> <<"S", "M", "P", "T", "E", " ", "S", "T", " ", "2",
          "0", "8", "4">>, marker |-> <<"H", "D", "R", "1", "0">>],
      Hlg |-> [str |-> <<"H", "L", "G">>, marker |-> <<"H", "L", "G">>],
      BT709 |-> [str |-> <<"B", "T", ".", "7", "0", "9">>, marker |-> <<>>],
      BT2020 |-> [str |-> <<"B", "T", ".", "2", "0", "2", "0", " ", "(", "1",
          "0", "-", "b", "i", "t", ")">>, marker |-> <<>>] ]
Transfers == {Transfer.PQ, Transfer.ST2084, Transfer.Hlg, Transfer.BT709, Transfer.BT2020}

\* "Bit depth" values and the number of bits each states
Depth ==
    [ D8 |-> [str |-> <<"8", " ", "b", "i", "t", "s">>, bits |-> 8],
      D10 |-> [str |-> <<"1", "0", " ", "b", "i", "t", "s">>, bits |-> 10],
      D12 |-> [str |-> <<"1", "2", " ", "b", "i", "t", "s">>, bits |-> 12],
      D16 |-> [str |-> <<"1", "6", " ", "b", "i", "t", "s">>, bits |-> 16],
      D18 |-> [str |-> <<"1", "8", " ", "b", "i", "t", "s">>, bits |-> 18] ]
Depths == {Depth.D8, Depth.D10, Depth.D12, Depth.D16, Depth.D18}

\* a field of a stream: absent, or the first of the values of its key (which
\* is empty when the report has the key twice, first without a value)
FieldValues(toks) == {None, Some(<<>>)} \cup {Some(t.str) : t \in toks}

VideoInputs ==
    {VideoStream(Some(<<"H", "E", "V", "C">>), Some(<<"1", "0", " ", "b", "i",
        "t", "s">>), Some(<<"2", " ", "1", "6", "0", " ", "p", "i", "x", "e",
        "l", "s">>), h, t) :
        h \in FieldValues(HdrLabels), t \in FieldValues(Transfers)}
    \cup {VideoStream(f, b, h, None, None) :
            f \in {None, Some(<<"A", "V", "C">>)},
            b \in FieldValues(Depths),
            h \in {None, Some(<<"1", " ", "0", "8", "0", " ", "p", "i", "x",
                "e", "l", "s">>), Some(<<"3", "6", "0", " ", "p", "i", "x",
                "e", "l", "s">>), Some(<<"p", "i", "x", "e", "l", "s">>)}}

\* "Commercial name" values and the descriptor each decides (none for a name
\* without atmos, truehd and dts)
Commercial ==
    [ Atmos |-> [str |-> <<"D", "o", "l", "b", "y", " ", "D", "i", "g", "i",
          "t", "a", "l", " ", "P", "l", "u", "s", " ", "w", "i", "t", "h",
          " ", "D", "o", "l", "b", "y", " ", "A", "t", "m", "o", "s">>,
          decides |-> <<"A", "t", "m", "o", "s">>],
      TrueHdAtmos |-> [str |-> <<"D", "o", "l", "b", "y", " ", "T", "r", "u",
          "e", "H", "D", " ", "w", "i", "t", "h", " ", "D", "o", "l", "b",
          "y", " ", "A", "t", "m", "o", "s">>, decides |-> <<"A", "t", "m",
          "o", "s">>],
      AtmosLower |-> [str |-> <<"d", "o", "l", "b", "y", " ", "a", "t", "m",
          "o", "s">>, decides |-> <<"A", "t", "m", "o", "s">>],
      TrueHd |-> [str |-> <<"D", "o", "l", "b", "y", " ", "T", "r", "u", "e",
          "H", "D">>, decides |-> <<"T", "r", "u", "e", "H", "D">>],
      DtsHdMa |-> [str |-> <<"D", "T", "S", "-", "H", "D", " ", "M", "a",
          "s", "t", "e", "r", " ", "A", "u", "d", "i", "o">>,
          decides |-> <<"D", "T", "S", "-", "H", "D", " ", "M", "A">>],
      DtsHdLower |-> [str |-> <<"d", "t", "s", "-", "h", "d", " ", "m", "a",
          "s", "t", "e", "r", " ", "a", "u", "d", "i", "o">>,
          decides |-> <<"D", "T", "S">>],
      Dts |-> [str |-> <<"D", "T", "S">>, decides |-> <<"D", "T", "S">>],
      DDPlus |-> [str |-> <<"D", "o", "l", "b", "y", " ", "D", "i", "g", "i",
          "t", "a", "l", " ", "P", "l", "u", "s">>, decides |-> <<>>],
      DD |-> [str |-> <<"D", "o", "l", "b", "y", " ", "D", "i", "g", "i",
          "t", "a", "l">>, decides |-> <<>>] ]
CommercialNames == {Commercial.Atmos, Commercial.TrueHdAtmos,
    Commercial.AtmosLower, Commercial.TrueHd, Commercial.DtsHdMa,
    Commercial.DtsHdLower, Commercial.Dts, Commercial.DDPlus, Commercial.DD}

\* "Format" values and the descriptor the table of format codes gives each
Format ==
    [ EAc3 |-> [str |-> <<"E", "-", "A", "C", "-", "3">>, desc |-> <<"D",
          "D", "+">>],
      EAc3Joc |-> [str |-> <<"E", "-", "A", "C", "-", "3", " ", "J", "O",
          "C">>, desc |-> <<"D", "D", "+">>],
      Eac3 |-> [str |-> <<"E", "A", "C", "3">>, desc |-> <<"D", "D", "+">>],
      Ac3 |-> [str |-> <<"A", "C", "-", "3">>, desc |-> <<"D", "D">>],
      Ac3Lower |-> [str |-> <<"a", "c", "-", "3">>, desc |-> <<"D", "D">>],
      AC3 |-> [str |-> <<"A", "C", "3">>, desc |-> <<"D", "D">>],
      AacLc |-> [str |-> <<"A", "A", "C", " ", "L", "C">>, desc |-> <<"A",
          "A", "C">>],
      Flac |-> [str |-> <<"F", "L", "A", "C">>, desc |-> <<"F", "L", "A",
          "C">>],
      Opus |-> [str |-> <<"O", "p", "u", "s">>, desc |-> <<"O", "p", "u",
          "s">>],
      TrueHd |-> [str |-> <<"T", "r", "u", "e", "H", "D">>, desc |-> <<"T",
          "r", "u", "e", "H", "D">>],
      Dts |-> [str |-> <<"D", "T", "S">>, desc |-> <<"D", "T", "S">>],
      DtsXll |-> [str |-> <<"D", "T", "S", " ", "X", "L", "L">>,
          desc |-> <<"D", "T", "S">>],
      Mlp |-> [str |-> <<"M", "L", "P", " ", "F", "B", "A", " ", "1", "6",
          "-", "c", "h">>, desc |-> <<"M", "L", "P", " ", "F", "B", "A", " ",
          "1", "6", "-", "c", "h">>],
      Pcm |-> [str |-> <<"P", "C", "M">>, desc |-> <<"P", "C", "M">>] ]
Formats == {Format.EAc3, Format.EAc3Joc, Format.Eac3, Format.Ac3,
    Format.Ac3Lower, Format.AC3, Format.AacLc, Format.Flac, Format.Opus,
    Format.TrueHd, Format.Dts, Format.DtsXll, Format.Mlp, Format.Pcm}

\* "Channel(s)" values and the layout each is shown as
Channels ==
    [ C8 |-> [str |-> <<"8", " ", "c", "h", "a", "n", "n", "e", "l", "s">>,
          layout |-> <<"7", ".", "1">>],
      C6 |-> [str |-> <<"6", " ", "c", "h", "a", "n", "n", "e", "l", "s">>,
          layout |-> <<"5", ".", "1">>],
      C3 |-> [str |-> <<"3", " ", "c", "h", "a", "n", "n", "e", "l", "s">>,
          layout |-> <<"3", "c", "h">>],
      C2 |-> [str |-> <<"2", " ", "c", "h", "a", "n", "n", "e", "l", "s">>,
          layout |-> <<"2", ".", "0">>] ]
ChannelCounts == {Channels.C8, Channels.C6, Channels.C3, Channels.C2}

\* one audio stream of every commercial name, with and without every format
AudioMatrix ==
    {AudioStream(c, f, ch) :
        c \in FieldValues(CommercialNames), f \in FieldValues(Formats),
        ch \in {None, Some(Channels.C6.str)}}

\* audio streams and the descriptor of each
Aud ==
    [ Atmos |-> [stream |-> AudioStream(Some(<<"D", "o", "l", "b", "y", " ",
        "T", "r", "u", "e", "H", "D", " ", "w", "i", "t", "h", " ", "D", "o",
        "l", "b", "y", " ", "A", "t", "m", "o", "s">>),
                               Some(<<"M", "L", "P", " ", "F", "B", "A", " ",
                                   "1", "6", "-", "c", "h">>), Some(<<"8", " ",
                                   "c", "h", "a", "n", "n", "e", "l", "s">>)),
                 desc |-> <<"A", "t", "m", "o", "s", " ", "7", ".", "1">>],
      DtsHd |-> [stream |-> AudioStream(Some(<<"D", "T", "S", "-", "H", "D",
          " ", "M", "a", "s", "t", "e", "r", " ", "A", "u", "d", "i", "o">>),
          Some(<<"D", "T", "S", " ", "X", "L", "L">>),
                               Some(<<"6", " ", "c", "h", "a", "n", "n", "e",
                                   "l", "s">>)),
                 desc |-> <<"D", "T", "S", "-", "H", "D", " ", "M", "A", " ",
                     "5", ".", "1">>],
      Eac3 |-> [stream |-> AudioStream(None, Some(<<"E", "-", "A", "C", "-",
          "3">>), Some(<<"6", " ", "c", "h", "a", "n", "n", "e", "l", "s">>)),
                desc |-> <<"D", "D", "+", " ", "5", ".", "1">>],
      Ac3 |-> [stream |-> AudioStream(None, Some(<<"A", "C", "-", "3">>),
          Some(<<"2", " ", "c", "h", "a", "n", "n", "e", "l", "s">>)),
               desc |-> <<"D", "D", " ", "2", ".", "0">>],
      Ac3Dolby |-> [stream |-> AudioStream(Some(<<"D", "o", "l", "b", "y", " ",
          "D", "i", "g", "i", "t", "a", "l">>), Some(<<"a", "c", "-", "3">>),
                                  Some(<<"2", " ", "c", "h", "a", "n", "n",
                                      "e", "l", "s">>)),
                    desc |-> <<"D", "D", " ", "2", ".", "0">>],
      Aac |-> [stream |-> AudioStream(None, Some(<<"A", "A", "C", " ", "L",
          "C">>), None), desc |-> <<"A", "A", "C">>],
      Pcm |-> [stream |-> AudioStream(None, Some(<<"P", "C", "M">>),
          Some(<<"3", " ", "c", "h", "a", "n", "n", "e", "l", "s">>)),
               desc |-> <<"P", "C", "M", " ", "3", "c", "h">>],
      NoFormat |-> [stream |-> AudioStream(None, None, Some(<<"2", " ", "c",
          "h", "a", "n", "n", "e", "l", "s">>)),
                    desc |-> <<>>] ]
AudioTokens ==
    {Aud.Atmos, Aud.DtsHd, Aud.Eac3, Aud.Ac3, Aud.Ac3Dolby, Aud.Aac, Aud.Pcm,
     Aud.NoFormat}

\* text streams and the base language of each (None: no language)
Txt ==
    [ En |-> [stream |-> TextStream(Some(<<"E", "n", "g", "l", "i", "s",
        "h">>)), base |-> Some(<<"E", "n", "g", "l", "i", "s", "h">>)],
      EnSdh |-> [stream |-> TextStream(Some(<<"E", "n", "g", "l", "i", "s",
          "h", " ", "(", "S", "D", "H", ")">>)), base |-> Some(<<"E", "n", "g",
          "l", "i", "s", "h">>)],
      Zh |-> [stream |-> TextStream(Some(<<"C", "h", "i", "n", "e", "s", "e",
          " ", "(", "S", "i", "m", "p", "l", "i", "f", "i", "e", "d", ")">>)),
              base |-> Some(<<"C", "h", "i", "n", "e", "s", "e">>)],
      Fr |-> [stream |-> TextStream(Some(<<"F", "r", "e", "n", "c", "h">>)),
          base |-> Some(<<"F", "r", "e", "n", "c", "h">>)],
      De |-> [stream |-> TextStream(Some(<<"G", "e", "r", "m", "a", "n">>)),
          base |-> Some(<<"G", "e", "r", "m", "a", "n">>)],
      Ja |-> [stream |-> TextStream(Some(<<"J", "a", "p", "a", "n", "e", "s",
          "e">>)), base |-> Some(<<"J", "a", "p", "a", "n", "e", "s", "e">>)],
      Forced |-> [stream |-> TextStream(Some(<<"(", "f", "o", "r", "c", "e",
          "d", ")">>)), base |-> Some(<<>>)],
      NoLanguage |-> [stream |-> TextStream(None), base |-> None] ]
TextTokens == {Txt.En, Txt.EnSdh, Txt.Zh, Txt.Fr, Txt.De, Txt.Ja, Txt.Forced, Txt.NoLanguage}

\* lists of text streams longer than MaxTexts: 4 and 5 distinct languages
NamedTexts ==
    { <<Txt.En, Txt.EnSdh, Txt.Zh, Txt.Fr, Txt.De>>,
      <<Txt.En, Txt.Zh, Txt.En, Txt.Fr, Txt.NoLanguage, Txt.De, Txt.Ja>>,
      <<Txt.Zh, Txt.Forced, Txt.En, Txt.Fr, Txt.De>>,
      <<Txt.NoLanguage, Txt.NoLanguage, Txt.NoLanguage>> }

\* null when the report has no section of the kind, else the streams
ListOrNull(toks) ==
    IF toks = <<>> THEN None ELSE Some([i \in 1..Len(toks) |-> toks[i].stream])

SummaryInputs ==
    {[general |-> None, video |-> Some(<<v>>), audio |-> None, text |-> None] :
        v \in VideoInputs}
    \cup {[general |-> None, video |-> None, audio |-> ListOrNull(a), text |-> None] :
            a \in SeqsUpTo(AudioTokens, MaxAudio)}
    \cup {[general |-> None, video |-> None, audio |-> Some(<<a>>), text |-> None] :
            a \in AudioMatrix}
    \cup {[general |-> None,
           video |-> Some(<<VideoStream(Some(<<"A", "V", "C">>), None,
               Some(<<"7", "2", "0", " ", "p", "i", "x", "e", "l", "s">>),
                                        None, None)>>),
           audio |-> Some(<<Aud.Aac.stream>>), text |-> ListOrNull(t)] :
            t \in SeqsUpTo(TextTokens, MaxTexts) \cup NamedTexts}

\* generateSummary(structured), line 268-269
SumInit ==
    /\ media \in SummaryInputs
    /\ gpc = "start"
    /\ parts = <<>>
    /\ summary = <<>>

\* lines 272-298: video info
SumVideo ==
    /\ gpc = "start"
    /\ parts' = IF NonEmptyList(media.video) /\ videoParts(media) /= <<>>
                THEN Append(parts, join(videoParts(media), <<" ">>))
                ELSE parts
    /\ gpc' = "video"
    /\ UNCHANGED <<media, summary>>
    /\ UNCHANGED <<torrentVars, bbVars, cliVars, miVars, langVars, innerVars, tmpVars, debVars, ovVars, loadVars, stepVars>>

\* lines 300-350: audio info
SumAudio ==
    /\ gpc = "video"
    /\ parts' = IF NonEmptyList(media.audio) /\ audioPart(media) /= <<>>
                THEN Append(parts, audioPart(media))
                ELSE parts
    /\ gpc' = "audio"
    /\ UNCHANGED <<media, summary>>
    /\ UNCHANGED <<torrentVars, bbVars, cliVars, miVars, langVars, innerVars, tmpVars, debVars, ovVars, loadVars, stepVars>>

\* lines 352-364: subtitle info
SumText ==
    /\ gpc = "audio"
    /\ parts' = IF NonEmptyList(media.text) THEN Append(parts, subInfo(media)) ELSE parts
    /\ gpc' = "text"
    /\ UNCHANGED <<media, summary>>
    /\ UNCHANGED <<torrentVars, bbVars, cliVars, miVars, langVars, innerVars, tmpVars, debVars, ovVars, loadVars, stepVars>>

\* line 366
SumReturn ==
    /\ gpc = "text"
    /\ summary' = join(parts, <<" ", "|", " ">>)
    /\ gpc' = "returned"
    /\ UNCHANGED <<media, parts>>
    /\ UNCHANGED <<torrentVars, bbVars, cliVars, miVars, langVars, innerVars, tmpVars, debVars, ovVars, loadVars, stepVars>>

SumNext == SumVideo \/ SumAudio \/ SumText \/ SumReturn

InitSummary == TorrentIdle /\ BBIdle /\ CliIdle /\ MIIdle /\ SumInit /\ LangIdle /\ InnerIdle /\ TmpIdle /\ DebIdle /\ OvIdle /\ LoadIdle /\ StepIdle
SpecSummary == InitSummary /\ [][SumNext]_vars

-----------------------------------------------------------------------------
(* The language flags: src/lib/content/loader.ts                             *)

\* lines 252-354: the entries of the table, in the order Object.entries gives
languageToCountry ==
    << <<<<"a", "f", "r", "i", "k", "a", "a", "n", "s">>, <<"Z", "A">>>>,
      <<<<"a", "f">>, <<"Z", "A">>>>, <<<<"a", "l", "b", "a", "n", "i", "a", "n">>, <<"A", "L">>>>,
      <<<<"s", "q">>, <<"A", "L">>>>, <<<<"a", "m", "h", "a", "r", "i", "c">>, <<"E", "T">>>>,
      <<<<"a", "m">>, <<"E", "T">>>>, <<<<"a", "r", "a", "b", "i", "c">>, <<"S", "A">>>>,
      <<<<"a", "r">>, <<"S", "A">>>>, <<<<"a", "r", "m", "e", "n", "i", "a", "n">>, <<"A", "M">>>>,
      <<<<"h", "y">>, <<"A", "M">>>>,
      <<<<"a", "z", "e", "r", "b", "a", "i", "j", "a", "n", "i">>, <<"A", "Z">>>>,
      <<<<"a", "z">>, <<"A", "Z">>>>, <<<<"b", "a", "s", "q", "u", "e">>, <<"E", "S">>>>,
      <<<<"e", "u">>, <<"E", "S">>>>,
      <<<<"b", "e", "l", "a", "r", "u", "s", "i", "a", "n">>, <<"B", "Y">>>>,
      <<<<"b", "e">>, <<"B", "Y">>>>, <<<<"b", "e", "n", "g", "a", "l", "i">>, <<"B", "D">>>>,
      <<<<"b", "n">>, <<"B", "D">>>>, <<<<"b", "o", "s", "n", "i", "a", "n">>, <<"B", "A">>>>,
      <<<<"b", "s">>, <<"B", "A">>>>,
      <<<<"b", "u", "l", "g", "a", "r", "i", "a", "n">>, <<"B", "G">>>>,
      <<<<"b", "g">>, <<"B", "G">>>>, <<<<"b", "u", "r", "m", "e", "s", "e">>, <<"M", "M">>>>,
      <<<<"m", "y">>, <<"M", "M">>>>,
      <<<<"c", "a", "m", "b", "o", "d", "i", "a", "n">>, <<"K", "H">>>>,
      <<<<"k", "m">>, <<"K", "H">>>>, <<<<"c", "a", "t", "a", "l", "a", "n">>, <<"E", "S">>>>,
      <<<<"c", "a">>, <<"E", "S">>>>, <<<<"c", "e", "b", "u", "a", "n", "o">>, <<"P", "H">>>>,
      <<<<"c", "h", "i", "n", "e", "s", "e">>, <<"C", "N">>>>, <<<<"z", "h">>, <<"C", "N">>>>,
      <<<<"c", "h", "i", "n", "e", "s", "e", " ", "(", "s", "i", "m", "p", "l", "i", "f", "i", "e", "d", ")">>, <<"C", "N">>>>,
      <<<<"c", "h", "i", "n", "e", "s", "e", " ", "(", "t", "r", "a", "d", "i", "t", "i", "o", "n", "a", "l", ")">>, <<"C", "N">>>>,
      <<<<"c", "a", "n", "t", "o", "n", "e", "s", "e">>, <<"H", "K">>>>,
      <<<<"c", "r", "o", "a", "t", "i", "a", "n">>, <<"H", "R">>>>, <<<<"h", "r">>, <<"H", "R">>>>,
      <<<<"c", "z", "e", "c", "h">>, <<"C", "Z">>>>, <<<<"c", "s">>, <<"C", "Z">>>>,
      <<<<"d", "a", "n", "i", "s", "h">>, <<"D", "K">>>>, <<<<"d", "a">>, <<"D", "K">>>>,
      <<<<"d", "u", "t", "c", "h">>, <<"N", "L">>>>, <<<<"n", "l">>, <<"N", "L">>>>,
      <<<<"e", "n", "g", "l", "i", "s", "h">>, <<"U", "S">>>>, <<<<"e", "n">>, <<"U", "S">>>>,
      <<<<"e", "s", "p", "e", "r", "a", "n", "t", "o">>, <<"P", "L">>>>,
      <<<<"e", "o">>, <<"P", "L">>>>, <<<<"e", "s", "t", "o", "n", "i", "a", "n">>, <<"E", "E">>>>,
      <<<<"e", "t">>, <<"E", "E">>>>, <<<<"f", "i", "l", "i", "p", "i", "n", "o">>, <<"P", "H">>>>,
      <<<<"f", "i", "l">>, <<"P", "H">>>>, <<<<"f", "i", "n", "n", "i", "s", "h">>, <<"F", "I">>>>,
      <<<<"f", "i">>, <<"F", "I">>>>, <<<<"f", "r", "e", "n", "c", "h">>, <<"F", "R">>>>,
      <<<<"f", "r">>, <<"F", "R">>>>, <<<<"g", "a", "l", "i", "c", "i", "a", "n">>, <<"E", "S">>>>,
      <<<<"g", "l">>, <<"E", "S">>>>, <<<<"g", "e", "o", "r", "g", "i", "a", "n">>, <<"G", "E">>>>,
      <<<<"k", "a">>, <<"G", "E">>>>, <<<<"g", "e", "r", "m", "a", "n">>, <<"D", "E">>>>,
      <<<<"d", "e">>, <<"D", "E">>>>, <<<<"g", "r", "e", "e", "k">>, <<"G", "R">>>>,
      <<<<"e", "l">>, <<"G", "R">>>>, <<<<"g", "u", "j", "a", "r", "a", "t", "i">>, <<"I", "N">>>>,
      <<<<"g", "u">>, <<"I", "N">>>>,
      <<<<"h", "a", "i", "t", "i", "a", "n", " ", "c", "r", "e", "o", "l", "e">>, <<"H", "T">>>>,
      <<<<"h", "t">>, <<"H", "T">>>>, <<<<"h", "e", "b", "r", "e", "w">>, <<"I", "L">>>>,
      <<<<"h", "e">>, <<"I", "L">>>>, <<<<"h", "i", "n", "d", "i">>, <<"I", "N">>>>,
      <<<<"h", "i">>, <<"I", "N">>>>,
      <<<<"h", "u", "n", "g", "a", "r", "i", "a", "n">>, <<"H", "U">>>>,
      <<<<"h", "u">>, <<"H", "U">>>>,
      <<<<"i", "c", "e", "l", "a", "n", "d", "i", "c">>, <<"I", "S">>>>,
      <<<<"i", "s">>, <<"I", "S">>>>,
      <<<<"i", "n", "d", "o", "n", "e", "s", "i", "a", "n">>, <<"I", "D">>>>,
      <<<<"i", "d">>, <<"I", "D">>>>, <<<<"i", "r", "i", "s", "h">>, <<"I", "E">>>>,
      <<<<"g", "a">>, <<"I", "E">>>>, <<<<"i", "t", "a", "l", "i", "a", "n">>, <<"I", "T">>>>,
      <<<<"i", "t">>, <<"I", "T">>>>, <<<<"j", "a", "p", "a", "n", "e", "s", "e">>, <<"J", "P">>>>,
      <<<<"j", "a">>, <<"J", "P">>>>, <<<<"j", "a", "v", "a", "n", "e", "s", "e">>, <<"I", "D">>>>,
      <<<<"j", "v">>, <<"I", "D">>>>, <<<<"k", "a", "n", "n", "a", "d", "a">>, <<"I", "N">>>>,
      <<<<"k", "n">>, <<"I", "N">>>>, <<<<"k", "a", "z", "a", "k", "h">>, <<"K", "Z">>>>,
      <<<<"k", "k">>, <<"K", "Z">>>>, <<<<"k", "h", "m", "e", "r">>, <<"K", "H">>>>,
      <<<<"k", "o", "r", "e", "a", "n">>, <<"K", "R">>>>, <<<<"k", "o">>, <<"K", "R">>>>,
      <<<<"k", "u", "r", "d", "i", "s", "h">>, <<"T", "R">>>>, <<<<"k", "u">>, <<"T", "R">>>>,
      <<<<"k", "y", "r", "g", "y", "z">>, <<"K", "G">>>>, <<<<"k", "y">>, <<"K", "G">>>>,
      <<<<"l", "a", "o">>, <<"L", "A">>>>, <<<<"l", "o">>, <<"L", "A">>>>,
      <<<<"l", "a", "t", "i", "n">>, <<"V", "A">>>>, <<<<"l", "a">>, <<"V", "A">>>>,
      <<<<"l", "a", "t", "v", "i", "a", "n">>, <<"L", "V">>>>, <<<<"l", "v">>, <<"L", "V">>>>,
      <<<<"l", "i", "t", "h", "u", "a", "n", "i", "a", "n">>, <<"L", "T">>>>,
      <<<<"l", "t">>, <<"L", "T">>>>,
      <<<<"l", "u", "x", "e", "m", "b", "o", "u", "r", "g", "i", "s", "h">>, <<"L", "U">>>>,
      <<<<"l", "b">>, <<"L", "U">>>>,
      <<<<"m", "a", "c", "e", "d", "o", "n", "i", "a", "n">>, <<"M", "K">>>>,
      <<<<"m", "k">>, <<"M", "K">>>>, <<<<"m", "a", "l", "a", "y">>, <<"M", "Y">>>>,
      <<<<"m", "s">>, <<"M", "Y">>>>,
      <<<<"m", "a", "l", "a", "y", "a", "l", "a", "m">>, <<"I", "N">>>>,
      <<<<"m", "l">>, <<"I", "N">>>>, <<<<"m", "a", "l", "t", "e", "s", "e">>, <<"M", "T">>>>,
      <<<<"m", "t">>, <<"M", "T">>>>, <<<<"m", "a", "o", "r", "i">>, <<"N", "Z">>>>,
      <<<<"m", "i">>, <<"N", "Z">>>>, <<<<"m", "a", "r", "a", "t", "h", "i">>, <<"I", "N">>>>,
      <<<<"m", "r">>, <<"I", "N">>>>,
      <<<<"m", "o", "n", "g", "o", "l", "i", "a", "n">>, <<"M", "N">>>>,
      <<<<"m", "n">>, <<"M", "N">>>>, <<<<"n", "e", "p", "a", "l", "i">>, <<"N", "P">>>>,
      <<<<"n", "e">>, <<"N", "P">>>>,
      <<<<"n", "o", "r", "w", "e", "g", "i", "a", "n">>, <<"N", "O">>>>,
      <<<<"n", "o">>, <<"N", "O">>>>, <<<<"p", "a", "s", "h", "t", "o">>, <<"A", "F">>>>,
      <<<<"p", "s">>, <<"A", "F">>>>, <<<<"p", "e", "r", "s", "i", "a", "n">>, <<"I", "R">>>>,
      <<<<"f", "a">>, <<"I", "R">>>>, <<<<"p", "o", "l", "i", "s", "h">>, <<"P", "L">>>>,
      <<<<"p", "l">>, <<"P", "L">>>>,
      <<<<"p", "o", "r", "t", "u", "g", "u", "e", "s", "e">>, <<"P", "T">>>>,
      <<<<"p", "t">>, <<"P", "T">>>>,
      <<<<"p", "o", "r", "t", "u", "g", "u", "e", "s", "e", " ", "(", "b", "r", "a", "z", "i", "l", ")">>, <<"B", "R">>>>,
      <<<<"p", "u", "n", "j", "a", "b", "i">>, <<"P", "K">>>>, <<<<"p", "a">>, <<"P", "K">>>>,
      <<<<"r", "o", "m", "a", "n", "i", "a", "n">>, <<"R", "O">>>>, <<<<"r", "o">>, <<"R", "O">>>>,
      <<<<"r", "u", "s", "s", "i", "a", "n">>, <<"R", "U">>>>, <<<<"r", "u">>, <<"R", "U">>>>,
      <<<<"s", "e", "r", "b", "i", "a", "n">>, <<"R", "S">>>>, <<<<"s", "r">>, <<"R", "S">>>>,
      <<<<"s", "i", "n", "h", "a", "l", "a">>, <<"L", "K">>>>, <<<<"s", "i">>, <<"L", "K">>>>,
      <<<<"s", "l", "o", "v", "a", "k">>, <<"S", "K">>>>, <<<<"s", "k">>, <<"S", "K">>>>,
      <<<<"s", "l", "o", "v", "e", "n", "i", "a", "n">>, <<"S", "I">>>>,
      <<<<"s", "l">>, <<"S", "I">>>>, <<<<"s", "o", "m", "a", "l", "i">>, <<"S", "O">>>>,
      <<<<"s", "o">>, <<"S", "O">>>>, <<<<"s", "p", "a", "n", "i", "s", "h">>, <<"E", "S">>>>,
      <<<<"e", "s">>, <<"E", "S">>>>,
      <<<<"s", "p", "a", "n", "i", "s", "h", " ", "(", "l", "a", "t", "i", "n", " ", "a", "m", "e", "r", "i", "c", "a", ")">>, <<"M", "X">>>>,
      <<<<"s", "u", "n", "d", "a", "n", "e", "s", "e">>, <<"I", "D">>>>,
      <<<<"s", "u">>, <<"I", "D">>>>, <<<<"s", "w", "a", "h", "i", "l", "i">>, <<"K", "E">>>>,
      <<<<"s", "w">>, <<"K", "E">>>>, <<<<"s", "w", "e", "d", "i", "s", "h">>, <<"S", "E">>>>,
      <<<<"s", "v">>, <<"S", "E">>>>, <<<<"t", "a", "g", "a", "l", "o", "g">>, <<"P", "H">>>>,
      <<<<"t", "l">>, <<"P", "H">>>>, <<<<"t", "a", "j", "i", "k">>, <<"T", "J">>>>,
      <<<<"t", "g">>, <<"T", "J">>>>, <<<<"t", "a", "m", "i", "l">>, <<"I", "N">>>>,
      <<<<"t", "a">>, <<"I", "N">>>>, <<<<"t", "a", "t", "a", "r">>, <<"R", "U">>>>,
      <<<<"t", "t">>, <<"R", "U">>>>, <<<<"t", "e", "l", "u", "g", "u">>, <<"I", "N">>>>,
      <<<<"t", "e">>, <<"I", "N">>>>, <<<<"t", "h", "a", "i">>, <<"T", "H">>>>,
      <<<<"t", "h">>, <<"T", "H">>>>, <<<<"t", "u", "r", "k", "i", "s", "h">>, <<"T", "R">>>>,
      <<<<"t", "r">>, <<"T", "R">>>>, <<<<"t", "u", "r", "k", "m", "e", "n">>, <<"T", "M">>>>,
      <<<<"t", "k">>, <<"T", "M">>>>,
      <<<<"u", "k", "r", "a", "i", "n", "i", "a", "n">>, <<"U", "A">>>>,
      <<<<"u", "k">>, <<"U", "A">>>>, <<<<"u", "r", "d", "u">>, <<"P", "K">>>>,
      <<<<"u", "r">>, <<"P", "K">>>>, <<<<"u", "y", "g", "h", "u", "r">>, <<"C", "N">>>>,
      <<<<"u", "g">>, <<"C", "N">>>>, <<<<"u", "z", "b", "e", "k">>, <<"U", "Z">>>>,
      <<<<"u", "z">>, <<"U", "Z">>>>,
      <<<<"v", "i", "e", "t", "n", "a", "m", "e", "s", "e">>, <<"V", "N">>>>,
      <<<<"v", "i">>, <<"V", "N">>>>,
      <<<<"w", "e", "l", "s", "h">>, <<"G", "B", "-", "W", "L", "S">>>>,
      <<<<"c", "y">>, <<"G", "B", "-", "W", "L", "S">>>>,
      <<<<"x", "h", "o", "s", "a">>, <<"Z", "A">>>>, <<<<"x", "h">>, <<"Z", "A">>>>,
      <<<<"y", "i", "d", "d", "i", "s", "h">>, <<"I", "L">>>>, <<<<"y", "i">>, <<"I", "L">>>>,
      <<<<"y", "o", "r", "u", "b", "a">>, <<"N", "G">>>>, <<<<"y", "o">>, <<"N", "G">>>>,
      <<<<"z", "u", "l", "u">>, <<"Z", "A">>>>, <<<<"z", "u">>, <<"Z", "A">>>> >>

\* languageToCountry[key]: an own property, a member inherited from
\* Object.prototype (the table is made by {}), or undefined (None)
lookupCountry(key) ==
    IF \E i \in 1..Len(languageToCountry) : languageToCountry[i][1] = key
    THEN Some(languageToCountry[CHOOSE i \in 1..Len(languageToCountry) :
                                    languageToCountry[i][1] = key][2])
    ELSE IF key \in PrototypeKeys THEN Some(InheritedMember)
    ELSE None

\* char.charCodeAt(0) for the characters of the table's values
charCodeAt(c) ==
    IF \E i \in 1..26 : Ascii.upper[i] = c
    THEN 64 + (CHOOSE i \in 1..26 : Ascii.upper[i] = c)
    ELSE IF \E i \in 1..26 : Ascii.lower[i] = c
    THEN 96 + (CHOOSE i \in 1..26 : Ascii.lower[i] = c)
    ELSE IF c = "-" THEN 45
    ELSE 32

\* String.fromCodePoint: the UTF-16 code units of one code point
fromCodePoint(cp) ==
    IF cp < 65536 THEN <<cp>>
    ELSE <<55296 + ((cp - 65536) \div 1024), 56320 + ((cp - 65536) % 1024)>>

\* the glyphs written in the source, as UTF-16 code units
Glyph ==
    [ WhiteFlag |-> fromCodePoint(127987) \o <<65039>>,
      Globe |-> fromCodePoint(127760) ]

\* lines 360-366; code.toUpperCase is not a function when code is not a string
countryCodeToFlag(code) ==
    IF code = InheritedMember THEN [threw |-> TRUE, value |-> <<>>]
    ELSE [threw |-> FALSE,
          value |-> Flatten([i \in 1..Len(toUpperCase(code)) |->
                       fromCodePoint(127397 + charCodeAt(toUpperCase(code)[i]))])]

\* lines 384-388: the entries that match partially, first to last
partialMatches(normalized) ==
    SelectSeq(languageToCountry,
              LAMBDA e : \/ startsWith(normalized, e[1])
                         \/ startsWith(e[1], trim(splitOn(normalized, "(")[1])))

\* lines 373-392
getLanguageFlag(language) ==
    IF language = <<>> THEN [threw |-> FALSE, value |-> Glyph.WhiteFlag]
    ELSE LET normalized == trim(toLowerCase(language))
         IN  IF IsSome(lookupCountry(normalized))
             THEN countryCodeToFlag(Val(lookupCountry(normalized)))
             ELSE IF partialMatches(normalized) /= <<>>
             THEN countryCodeToFlag(partialMatches(normalized)[1][2])
             ELSE [threw |-> FALSE, value |-> Glyph.Globe]

\* line 405: the alternatives of the regular expression
Markers ==
    <<<<"s", "d", "h">>, <<"c", "c">>, <<"f", "o", "r", "c", "e", "d">>, <<"c",
        "o", "m", "m", "e", "n", "t", "a", "r", "y">>, <<"d", "e", "s", "c",
        "r", "i", "p", "t", "i", "v", "e">>, <<"h", "e", "a", "r", "i", "n",
        "g", " ", "i", "m", "p", "a", "i", "r", "e", "d">>>>

\* /\s*(sdh|...)\s*/ tried at index i: the end of the match, or -1
markerMatchEnd(s, i) ==
    LET j == SpaceRunEnd(s, i)
    IN  IF \E k \in 1..Len(Markers) : OccursAt(s, Markers[k], j)
        THEN SpaceRunEnd(s, j + Len(Markers[CHOOSE k \in 1..Len(Markers) :
                                                OccursAt(s, Markers[k], j)]))
        ELSE -1

\* line 405: .replace(/\s*(...)\s*/gi, ''), the string from index `from` on
RECURSIVE stripMarkersFrom(_, _)
stripMarkersFrom(s, from) ==
    LET starts == {i \in from..(Len(s) - 1) : markerMatchEnd(s, i) /= -1}
    IN  IF starts = {} THEN substringFrom(s, from)
        ELSE LET i == CHOOSE x \in starts : \A y \in starts : x <= y
             IN  substring(s, from, i) \o stripMarkersFrom(s, markerMatchEnd(s, i))

\* lines 418-421
regionalMap == <<<<"s", "p", "a", "n", "i", "s", "h", " ", "(", "l", "a", "t",
    "i", "n", " ", "a", "m", "e", "r", "i", "c", "a", ")">>, <<"p", "o", "r",
    "t", "u", "g", "u", "e", "s", "e", " ", "(", "b", "r", "a", "z", "i", "l",
    ")">>>>

\* lines 423-427: the condition of the loop over regionalMap
regionalMatch(language, key) ==
    /\ includes(toLowerCase(language), splitOn(key, "(")[1])
    /\ includes(toLowerCase(language), replaceFirst(splitOn(key, "(")[2],
        <<")">>, <<>>))

\* mutant: the marker words are left in place
normalizeLanguageKeepMarkers(language) ==
    IF language = <<>> THEN <<>>
    ELSE LET base == trim(splitOn(toLowerCase(language), "(")[1])
         IN  IF includes(base, <<"c", "h", "i", "n", "e", "s",
             "e">>) THEN <<"c", "h", "i", "n", "e", "s", "e">>
             ELSE IF includes(base, <<"c", "a", "n", "t", "o", "n", "e", "s",
                 "e">>) THEN <<"c", "a", "n", "t", "o", "n", "e", "s", "e">>
             ELSE IF \E k \in 1..Len(regionalMap) : regionalMatch(language, regionalMap[k])
             THEN regionalMap[CHOOSE k \in 1..Len(regionalMap) :
                      /\ regionalMatch(language, regionalMap[k])
                      /\ \A h \in 1..(k - 1) : ~regionalMatch(language, regionalMap[h])]
             ELSE base
\* lines 397-429
normalizeLanguage(language) ==
    IF language = <<>> THEN <<>>
    ELSE LET base == trim(stripMarkersFrom(splitOn(toLowerCase(language), "(")[1], 0))
         IN  IF includes(base, <<"c", "h", "i", "n", "e", "s",
             "e">>) THEN <<"c", "h", "i", "n", "e", "s", "e">>
             ELSE IF includes(base, <<"c", "a", "n", "t", "o", "n", "e", "s",
                 "e">>) THEN <<"c", "a", "n", "t", "o", "n", "e", "s", "e">>
             ELSE IF \E k \in 1..Len(regionalMap) : regionalMatch(language, regionalMap[k])
             THEN regionalMap[CHOOSE k \in 1..Len(regionalMap) :
                      /\ regionalMatch(language, regionalMap[k])
                      /\ \A h \in 1..(k - 1) : ~regionalMatch(language, regionalMap[h])]
             ELSE base

\* the bound of the argument of getUniqueLanguageFlags
MaxLabels == 2

\* a label, and the canonical language it stands for
LabelTok(str, canon) == [str |-> str, canon |-> canon]
Label ==
    [ En |-> LabelTok(<<"E", "n", "g", "l", "i", "s", "h">>, <<"e", "n", "g",
        "l", "i", "s", "h">>),
      EnSdh |-> LabelTok(<<"E", "n", "g", "l", "i", "s", "h", " ", "(", "S",
          "D", "H", ")">>, <<"e", "n", "g", "l", "i", "s", "h">>),
      EnCc |-> LabelTok(<<"E", "N", "G", "L", "I", "S", "H", " ", "C", "C">>,
          <<"e", "n", "g", "l", "i", "s", "h">>),
      EnHi |-> LabelTok(<<"E", "n", "g", "l", "i", "s", "h", " ", "H", "e",
          "a", "r", "i", "n", "g", " ", "I", "m", "p", "a", "i", "r", "e",
          "d">>, <<"e", "n", "g", "l", "i", "s", "h">>),
      EnDesc |-> LabelTok(<<"e", "n", "g", "l", "i", "s", "h", " ", "d", "e",
          "s", "c", "r", "i", "p", "t", "i", "v", "e">>, <<"e", "n", "g", "l",
          "i", "s", "h">>),
      Ja |-> LabelTok(<<"J", "a", "p", "a", "n", "e", "s", "e">>, <<"j", "a",
          "p", "a", "n", "e", "s", "e">>),
      FrForced |-> LabelTok(<<"F", "r", "e", "n", "c", "h", " ", "F", "o", "r",
          "c", "e", "d">>, <<"f", "r", "e", "n", "c", "h">>),
      DeCom |-> LabelTok(<<"G", "e", "r", "m", "a", "n", " ", "C", "o", "m",
          "m", "e", "n", "t", "a", "r", "y", " ", "(", "D", "i", "r", "e", "c",
          "t", "o", "r", ")">>, <<"g", "e", "r", "m", "a", "n">>),
      Zh |-> LabelTok(<<"C", "h", "i", "n", "e", "s", "e">>, <<"c", "h", "i",
          "n", "e", "s", "e">>),
      ZhS |-> LabelTok(<<"C", "h", "i", "n", "e", "s", "e", " ", "(", "S", "i",
          "m", "p", "l", "i", "f", "i", "e", "d", ")">>, <<"c", "h", "i", "n",
          "e", "s", "e">>),
      ZhT |-> LabelTok(<<"C", "h", "i", "n", "e", "s", "e", " ", "(", "T", "r",
          "a", "d", "i", "t", "i", "o", "n", "a", "l", ")">>, <<"c", "h", "i",
          "n", "e", "s", "e">>),
      Yue |-> LabelTok(<<"C", "a", "n", "t", "o", "n", "e", "s", "e">>, <<"c",
          "a", "n", "t", "o", "n", "e", "s", "e">>),
      Es |-> LabelTok(<<"S", "p", "a", "n", "i", "s", "h">>, <<"s", "p", "a",
          "n", "i", "s", "h">>),
      EsLa |-> LabelTok(<<"S", "p", "a", "n", "i", "s", "h", " ", "(", "L",
          "a", "t", "i", "n", " ", "A", "m", "e", "r", "i", "c", "a", ")">>,
          <<"s", "p", "a", "n", "i", "s", "h", " ", "(", "l", "a", "t", "i",
          "n", " ", "a", "m", "e", "r", "i", "c", "a", ")">>),
      Pt |-> LabelTok(<<"P", "o", "r", "t", "u", "g", "u", "e", "s", "e">>,
          <<"p", "o", "r", "t", "u", "g", "u", "e", "s", "e">>),
      PtBr |-> LabelTok(<<"P", "o", "r", "t", "u", "g", "u", "e", "s", "e",
          " ", "(", "B", "r", "a", "z", "i", "l", ")">>, <<"p", "o", "r", "t",
          "u", "g", "u", "e", "s", "e", " ", "(", "b", "r", "a", "z", "i", "l",
          ")">>),
      PtBrn |-> LabelTok(<<"P", "o", "r", "t", "u", "g", "u", "e", "s", "e",
          " ", "(", "B", "r", "a", "z", "i", "l", "i", "a", "n", ")">>, <<"p",
          "o", "r", "t", "u", "g", "u", "e", "s", "e", " ", "(", "b", "r", "a",
          "z", "i", "l", ")">>),
      FoEn |-> LabelTok(<<"F", "o", "r", "c", "e", "d", " ", "E", "n", "g",
          "l", "i", "s", "h">>, <<"e", "n", "g", "l", "i", "s", "h">>),
      Cy |-> LabelTok(<<"W", "e", "l", "s", "h">>, <<"w", "e", "l", "s", "h">>),
      Klingon |-> LabelTok(<<"K", "l", "i", "n", "g", "o", "n">>, <<"k", "l",
          "i", "n", "g", "o", "n">>),
      Ctor |-> LabelTok(<<"C", "o", "n", "s", "t", "r", "u", "c", "t", "o",
          "r">>, <<"c", "o", "n", "s", "t", "r", "u", "c", "t", "o", "r">>),
      OnlySdh |-> LabelTok(<<"(", "S", "D", "H", ")">>, <<>>),
      Empty |-> LabelTok(<<>>, <<>>) ]
Labels ==
    {Label.En, Label.EnSdh, Label.EnCc, Label.EnHi, Label.EnDesc, Label.Ja,
     Label.FrForced, Label.DeCom, Label.Zh, Label.ZhS, Label.ZhT, Label.Yue, Label.Es,
     Label.EsLa, Label.Pt, Label.PtBr, Label.PtBrn, Label.FoEn, Label.Cy, Label.Klingon, Label.Ctor,
     Label.OnlySdh, Label.Empty}

\* the keys of the table as labels: each is its own canonical language, but
\* for the two Chinese variants
KeyLabels ==
    {LabelTok(languageToCountry[i][1],
              IF languageToCountry[i][1] \in {Label.ZhS.canon \o <<" ", "(",
                  "s", "i", "m", "p", "l", "i", "f", "i", "e", "d", ")">>,
                                               Label.ZhT.canon \o <<" ", "(",
                                                   "t", "r", "a", "d", "i",
                                                   "t", "i", "o", "n", "a",
                                                   "l", ")">>}
              THEN <<"c", "h", "i", "n", "e", "s",
                  "e">> ELSE languageToCountry[i][1]) :
        i \in 1..Len(languageToCountry)}

\* the example of the specification, and a list with the same language thrice
NamedLabelLists ==
    { <<Label.En, Label.EnSdh, Label.Ja>>,
      <<Label.ZhT, Label.Yue, Label.Empty, Label.ZhS, Label.En, Label.Yue>>,
      <<Label.EnSdh, Label.EnCc, Label.EnHi>> }
LabelLists ==
    SeqsUpTo(Labels,
        MaxLabels) \cup NamedLabelLists \cup {<<k>> : k \in KeyLabels}

\* getUniqueLanguageFlags(languages), lines 434-436; with one label the caller
\* may as well call getLanguageFlag(language)
LangInit ==
    /\ labels \in LabelLists
    /\ lpc = "start"
    /\ li = 0
    /\ normalizedLang = <<>>
    /\ seen = {}
    /\ result = <<>>
    /\ flag = <<>>

\* getLanguageFlag(language), lines 373-392
GetLanguageFlag ==
    /\ lpc = "start"
    /\ Len(labels) = 1
    /\ LET r == getLanguageFlag(labels[1].str)
       IN  /\ flag' = r.value
           /\ lpc' = IF r.threw THEN "flagThrew" ELSE "flagReturned"
    /\ UNCHANGED <<labels, li, normalizedLang, seen, result>>
    /\ UNCHANGED <<torrentVars, bbVars, cliVars, miVars, sumVars, innerVars, tmpVars, debVars, ovVars, loadVars, stepVars>>

\* lines 438-447: one iteration of the loop
UniqueIteration ==
    /\ lpc \in {"start", "unique"}
    /\ li < Len(labels)
    /\ LET n == normalizeLanguage(labels[li + 1].str)
           r == getLanguageFlag(n)
       IN  /\ normalizedLang' = n
           /\ IF n /= <<>> /\ n \notin seen
              THEN IF r.threw
                   THEN lpc' = "uniqueThrew" /\ UNCHANGED <<seen, result>>
                   ELSE /\ lpc' = "unique"
                        /\ seen' = seen \cup {n}
                        /\ result' = Append(result, [language |-> n, flag |-> r.value])
              ELSE lpc' = "unique" /\ UNCHANGED <<seen, result>>
    /\ li' = li + 1
    /\ UNCHANGED <<labels, flag>>
    /\ UNCHANGED <<torrentVars, bbVars, cliVars, miVars, sumVars, innerVars, tmpVars, debVars, ovVars, loadVars, stepVars>>

\* line 449
UniqueReturn ==
    /\ lpc \in {"start", "unique"}
    /\ li = Len(labels)
    /\ lpc' = "uniqueReturned"
    /\ UNCHANGED <<labels, li, normalizedLang, seen, result, flag>>
    /\ UNCHANGED <<torrentVars, bbVars, cliVars, miVars, sumVars, innerVars, tmpVars, debVars, ovVars, loadVars, stepVars>>

LangNext == GetLanguageFlag \/ UniqueIteration \/ UniqueReturn

InitLanguage == TorrentIdle /\ BBIdle /\ CliIdle /\ MIIdle /\ SumIdle /\ LangInit /\ InnerIdle /\ TmpIdle /\ DebIdle /\ OvIdle /\ LoadIdle /\ StepIdle
SpecLanguage == InitLanguage /\ [][LangNext]_vars

-----------------------------------------------------------------------------
(* parseInnerBBCode, statement by statement: scripts/lib/bbcode.ts           *)

\* the bound of the contents: the number of tags and pieces of text
MaxInner == 3

\* tags and text the content of a block is written from
InnerTokens ==
    {Tok.QA, Tok.QB, Tok.Q0, Tok.CQ, Tok.SX, Tok.CS, Tok.X, Tok.IMG, Tok.CIMG,
     Tok.B, Tok.CB, Tok.IT, Tok.CIT}

\* a quote in a spoiler in a quote, two blocks side by side, a quote that
\* opens inside an image tag, italic text in bold text and bold text in
\* italic text
NamedContents ==
    { <<Tok.QA, Tok.SX, Tok.X, Tok.QB, Tok.X, Tok.CQ, Tok.CS, Tok.CQ>>,
      <<Tok.SX, Tok.X, Tok.CS, Tok.B, Tok.QA, Tok.CQ>>,
      <<Tok.IMG, Tok.QA, Tok.CIMG, Tok.X, Tok.CQ>>,
      <<Tok.B, Tok.IT, Tok.X, Tok.CIT, Tok.CB>>,
      <<Tok.IT, Tok.B, Tok.X, Tok.CB, Tok.CIT>> }
InnerContents == SeqsUpTo(InnerTokens, MaxInner) \cup NamedContents

\* parseInnerBBCode(input), line 11: let result = input
InnerInit ==
    /\ content \in InnerContents
    /\ innerResult = InputOf(content)
    /\ statement = 1
    /\ ipc = "replace"

\* lines 14-62: the next result = result.replace(...)
InnerReplace ==
    /\ ipc = "replace"
    /\ statement <= Len(Replacements)
    /\ innerResult' = replace(innerResult, Replacements[statement].p,
                              Replacements[statement].tpl)
    /\ statement' = statement + 1
    /\ UNCHANGED <<content, ipc>>
    /\ UNCHANGED <<torrentVars, bbVars, cliVars, miVars, sumVars, langVars, tmpVars, debVars, ovVars, loadVars, stepVars>>

\* line 64: return result.trim()
InnerReturn ==
    /\ ipc = "replace"
    /\ statement > Len(Replacements)
    /\ innerResult' = trim(innerResult)
    /\ ipc' = "returned"
    /\ UNCHANGED <<content, statement>>
    /\ UNCHANGED <<torrentVars, bbVars, cliVars, miVars, sumVars, langVars, tmpVars, debVars, ovVars, loadVars, stepVars>>

InnerNext == InnerReplace \/ InnerReturn

InitInner ==
    TorrentIdle /\ BBIdle /\ CliIdle /\ MIIdle /\ SumIdle /\ LangIdle /\ InnerInit /\ TmpIdle /\ DebIdle /\ OvIdle /\ LoadIdle /\ StepIdle
SpecInner == InitInner /\ [][InnerNext]_vars

-----------------------------------------------------------------------------
(* TempFileManager: scripts/lib/bbcode.ts, lines 276-352                    *)

MaxCalls == 4       \* calls of add, remove and cleanup in one run

TmpPaths == {"a", "b"}

\* this.files.has(filePath)
Registered(reg) == {reg[k].path : k \in 1..Len(reg)}
\* this.files.add(filePath): a Set keeps the order of insertion and an entry
\* already there stays where it is
setAdd(reg, f, id) ==
    IF f \in Registered(reg) THEN reg ELSE Append(reg, [path |-> f, id |-> id])
\* this.files.delete(filePath)
setDelete(reg, f) == SelectSeq(reg, LAMBDA e : e.path /= f)

\* lines 326-335: the loop `for (const file of this.files)` from the entry
\* after the one numbered last on, up to its next await: the entry whose file
\* exists, or none when the loop runs to its end.  The iterator of a Set
\* visits the entries in the order of insertion, those added meanwhile too
nextToUnlink(reg, dsk, last) ==
    LET todo == SelectSeq(reg, LAMBDA e : e.id > last /\ e.path \in dsk)
    IN  IF todo = <<>> THEN None ELSE Some(todo[1])

Call(op, f, pc, before, at) ==
    [op |-> op, file |-> f, pc |-> pc, before |-> before, at |-> at]

\* line 274 and lines 277-278: the module's one manager, as constructed
TmpInit ==
    /\ tmpFiles = <<>>
    /\ isCleaning = FALSE
    /\ disk \in SUBSET TmpPaths
    /\ nextId = 1
    /\ tmpCalls = <<>>

\* lines 299-301: add(filePath); the caller has written the file or has not
TmpAdd ==
    \E f \in TmpPaths, written \in BOOLEAN :
        /\ Len(tmpCalls) < MaxCalls
        /\ tmpFiles' = setAdd(tmpFiles, f, nextId)
        /\ nextId' = nextId + 1
        /\ disk' = IF written THEN disk \cup {f} ELSE disk
        /\ tmpCalls' = Append(tmpCalls,
                              Call("add", f, "resolved", Registered(tmpFiles), 0))
        /\ UNCHANGED isCleaning
        /\ UNCHANGED <<torrentVars, bbVars, cliVars, miVars, sumVars, langVars, innerVars, debVars, ovVars, loadVars, stepVars>>

\* lines 306-317: remove(filePath), up to its await or to its end
TmpRemove ==
    \E f \in TmpPaths :
        /\ Len(tmpCalls) < MaxCalls
        /\ IF f \in Registered(tmpFiles) /\ f \in disk
           THEN /\ tmpCalls' = Append(tmpCalls,
                                      Call("remove", f, "unlinking",
                                           Registered(tmpFiles), 0))
                /\ UNCHANGED tmpFiles
           ELSE /\ tmpCalls' = Append(tmpCalls,
                                      Call("remove", f, "resolved",
                                           Registered(tmpFiles), 0))
                /\ tmpFiles' = setDelete(tmpFiles, f)
        /\ UNCHANGED <<isCleaning, disk, nextId>>
        /\ UNCHANGED <<torrentVars, bbVars, cliVars, miVars, sumVars, langVars, innerVars, debVars, ovVars, loadVars, stepVars>>

\* lines 322-337: cleanup(), up to its first await or to its end
TmpCleanup ==
    /\ Len(tmpCalls) < MaxCalls
    /\ IF isCleaning
       THEN /\ tmpCalls' = Append(tmpCalls,
                                  Call("cleanup", "", "resolved",
                                       Registered(tmpFiles), 0))
            /\ UNCHANGED <<tmpFiles, isCleaning>>
       ELSE /\ isCleaning' = TRUE
            /\ IF nextToUnlink(tmpFiles, disk, 0) /= None
               THEN /\ tmpCalls' =
                          Append(tmpCalls,
                                 Call("cleanup",
                                      Val(nextToUnlink(tmpFiles, disk, 0)).path,
                                      "unlinking", Registered(tmpFiles),
                                      Val(nextToUnlink(tmpFiles, disk, 0)).id))
                    /\ UNCHANGED tmpFiles
               ELSE /\ tmpCalls' = Append(tmpCalls,
                                          Call("cleanup", "", "resolved",
                                               Registered(tmpFiles), 0))
                    /\ tmpFiles' = <<>>
    /\ UNCHANGED <<disk, nextId>>
    /\ UNCHANGED <<torrentVars, bbVars, cliVars, miVars, sumVars, langVars, innerVars, debVars, ovVars, loadVars, stepVars>>

\* `await fs.unlink(file)` of call c settles: the file is gone, or unlink
\* throws (always when the file was deleted meanwhile) and the catch block
\* takes it; then the call runs on to its next await or to its end
TmpUnlinkSettles ==
    \E c \in 1..Len(tmpCalls), ok \in BOOLEAN :
        /\ tmpCalls[c].pc = "unlinking"
        /\ ok => tmpCalls[c].file \in disk
        /\ disk' = IF ok THEN disk \ {tmpCalls[c].file} ELSE disk
        /\ IF tmpCalls[c].op = "remove"
           THEN \* line 315
                /\ tmpFiles' = setDelete(tmpFiles, tmpCalls[c].file)
                /\ tmpCalls' = [tmpCalls EXCEPT ![c].pc = "resolved"]
           ELSE IF nextToUnlink(tmpFiles, disk', tmpCalls[c].at) /= None
           THEN \* lines 326-329: the next file that exists
                /\ tmpCalls' =
                      [tmpCalls EXCEPT
                          ![c].file = Val(nextToUnlink(tmpFiles, disk',
                                                       tmpCalls[c].at)).path,
                          ![c].at = Val(nextToUnlink(tmpFiles, disk',
                                                     tmpCalls[c].at)).id]
                /\ UNCHANGED tmpFiles
           ELSE \* line 335
                /\ tmpFiles' = <<>>
                /\ tmpCalls' = [tmpCalls EXCEPT ![c].pc = "resolved"]
        /\ UNCHANGED <<isCleaning, nextId>>
        /\ UNCHANGED <<torrentVars, bbVars, cliVars, miVars, sumVars, langVars, innerVars, debVars, ovVars, loadVars, stepVars>>

TmpNext == TmpAdd \/ TmpRemove \/ TmpCleanup \/ TmpUnlinkSettles

InitTmp == TorrentIdle /\ BBIdle /\ CliIdle /\ MIIdle /\ SumIdle /\ LangIdle /\ InnerIdle /\ TmpInit /\ DebIdle /\ OvIdle /\ LoadIdle /\ StepIdle
SpecTmp == InitTmp /\ [][TmpNext]_vars

-----------------------------------------------------------------------------
(* debounce: src/lib/utils/mediainfo-parser.ts, lines 392-401               *)

MaxDebounced == 3   \* calls of the debounced function in one run
MaxTime == 6        \* the clock stops here
Delay == 2          \* the argument `delay`, in ticks of the clock

DebArgs == {"q1", "q2"}

\* mutant: the pending timer is not cleared
clearTimeoutForgets(ts, id) == ts
\* clearTimeout(timeoutId): the timer of that id, if it is still pending
clearTimeout(ts, id) == {t \in ts : t.id /= id}
\* setTimeout(() => fn(...args), delay) at time now, with a fresh id
setTimeout(ts, id, now, args) ==
    ts \cup {[id |-> id, due |-> now + Delay, args |-> args]}

\* debounce(fn, delay), lines 396-397: let timeoutId, and the closure returned
DebInit ==
    /\ clock = 0
    /\ timeoutId = 0
    /\ timers = {}
    /\ debCalls = <<>>
    /\ invoked = <<>>

\* lines 397-400: the debounced function is called with args
DebCall ==
    \E args \in DebArgs :
        /\ Len(debCalls) < MaxDebounced
        /\ timers' = setTimeout(clearTimeout(timers, timeoutId),
                                Len(debCalls) + 1, clock, args)
        /\ timeoutId' = Len(debCalls) + 1
        /\ debCalls' = Append(debCalls, [at |-> clock, args |-> args])
        /\ UNCHANGED <<clock, invoked>>
        /\ UNCHANGED <<torrentVars, bbVars, cliVars, miVars, sumVars, langVars, innerVars, tmpVars, ovVars, loadVars, stepVars>>

\* line 399: a timer that is due runs its callback, fn(...args); the event
\* loop runs it at its due time or later
DebFire ==
    \E t \in timers :
        /\ t.due <= clock
        /\ timers' = timers \ {t}
        /\ invoked' = Append(invoked, [at |-> clock, args |-> t.args,
                                       after |-> Len(debCalls)])
        /\ UNCHANGED <<clock, timeoutId, debCalls>>
        /\ UNCHANGED <<torrentVars, bbVars, cliVars, miVars, sumVars, langVars, innerVars, tmpVars, ovVars, loadVars, stepVars>>

\* time passes
DebTick ==
    /\ clock < MaxTime
    /\ clock' = clock + 1
    /\ UNCHANGED <<timeoutId, timers, debCalls, invoked>>
    /\ UNCHANGED <<torrentVars, bbVars, cliVars, miVars, sumVars, langVars, innerVars, tmpVars, ovVars, loadVars, stepVars>>

DebNext == DebCall \/ DebFire \/ DebTick

InitDebounce == TorrentIdle /\ BBIdle /\ CliIdle /\ MIIdle /\ SumIdle /\ LangIdle /\ InnerIdle /\ TmpIdle /\ DebInit /\ OvIdle /\ LoadIdle /\ StepIdle
SpecDebounce == InitDebounce /\ [][DebNext]_vars

-----------------------------------------------------------------------------
(* boundaryIndicator: src/lib/utils/overscroll.ts                           *)
(* The glow of the two indicators (topGlow, bottomGlow, fadeFrame and the   *)
(* opacity written by updateIndicators) is left out: nothing that decides   *)
(* about boundary-loadmore reads it.  Times are in ticks of 100 ms and      *)
(* wheel and touch distances in units of 100 pixels.                        *)

LoadMoreThreshold == 4      \* defaultOptions.loadMoreThreshold: 400
LoadMoreCooldown == 10      \* defaultOptions.loadMoreCooldown: 1000
SettleDelay == 2            \* defaultOptions.settleDelay: 200
ResetDelay == 5             \* line 174: 500

\* e.deltaY of a wheel event and touchStartY - currentY of a touch move
Deltas == {-1, 1, 2, 4}
\* where the page is: "short" is a page no taller than the window, at its top
\* and at its bottom at once
PagePositions == {"top", "middle", "bottom", "short"}

\* lines 85-87
isAtTop(pg) == pg \in {"top", "short"}
isAtBottom(pg) == pg \in {"bottom", "short"}

\* a timer: -1 when none is pending, else the ticks until it is due
NoTimer == -1

\* lines 99-116: triggerLoadMore(); the event dispatched is noted with what
\* held when it was dispatched
triggerLoadMore(o, snapshot) ==
    IF o.isInCooldown THEN o
    ELSE [o EXCEPT !.isInCooldown = TRUE,
                   !.cumulativeScroll = 0,
                   !.settledAtBottom = FALSE,
                   !.dispatched = Some(snapshot),
                   !.cooldownTimeout = LoadMoreCooldown]

\* lines 123-135: checkScrollSettle()
checkScrollSettle(o, pg) ==
    IF isAtBottom(pg)
    THEN [o EXCEPT !.scrollSettleTimeout = SettleDelay]
    ELSE [o EXCEPT !.scrollSettleTimeout = NoTimer, !.settledAtBottom = FALSE]

\* lines 155-189: handleWheel(e)
handleWheel(o, pg, deltaY, snapshot) ==
    LET after ==
            IF isAtTop(pg) /\ deltaY < 0 THEN o
            ELSE IF isAtBottom(pg) /\ deltaY > 0
            THEN IF o.enableLoadMore /\ ~o.isInCooldown /\ o.settledAtBottom
                 THEN LET added == [o EXCEPT !.cumulativeScroll = @ + deltaY,
                                             !.resetTimeout = ResetDelay]
                      IN  IF added.cumulativeScroll >= LoadMoreThreshold
                          THEN triggerLoadMore(added, snapshot)
                          ELSE added
                 ELSE o
            ELSE [o EXCEPT !.cumulativeScroll = 0, !.settledAtBottom = FALSE]
    IN  checkScrollSettle(after, pg)

\* lines 199-224: handleTouchMove(e)
handleTouchMove(o, pg, deltaY, snapshot) ==
    IF isAtTop(pg) /\ deltaY < 0 THEN o
    ELSE IF isAtBottom(pg) /\ deltaY > 0
    THEN IF o.enableLoadMore /\ ~o.isInCooldown /\ o.touchSettledAtBottom
         THEN LET moved == [o EXCEPT !.cumulativeScroll = deltaY]
              IN  IF moved.cumulativeScroll >= LoadMoreThreshold
                  THEN triggerLoadMore(moved, snapshot)
                  ELSE moved
         ELSE o
    ELSE o

\* lines 45-46 and 79-83, 191-192: boundaryIndicator(node, options)
OvInit ==
    /\ \E enable \in BOOLEAN :
          ov = [enableLoadMore |-> enable, cumulativeScroll |-> 0,
                isInCooldown |-> FALSE, settledAtBottom |-> FALSE,
                touchSettledAtBottom |-> FALSE, resetTimeout |-> NoTimer,
                scrollSettleTimeout |-> NoTimer, cooldownTimeout |-> NoTimer,
                dispatched |-> None]
    /\ page \in PagePositions
    /\ touching = FALSE
    /\ scrollPending = FALSE
    /\ sinceDispatch = LoadMoreCooldown
    /\ bottomFor = 0

\* what holds at the moment of a dispatch
Snapshot ==
    [since |-> sinceDispatch, enabled |-> ov.enableLoadMore,
     settled |-> ov.settledAtBottom, bottomFor |-> bottomFor]

\* a wheel event
OvWheel ==
    \E deltaY \in Deltas :
        /\ ov' = handleWheel([ov EXCEPT !.dispatched = None], page, deltaY, Snapshot)
        /\ sinceDispatch' = IF ov'.dispatched /= None THEN 0 ELSE sinceDispatch
        /\ UNCHANGED <<page, touching, scrollPending, bottomFor>>
        /\ UNCHANGED <<torrentVars, bbVars, cliVars, miVars, sumVars, langVars, innerVars, tmpVars, debVars, loadVars, stepVars>>

\* lines 194-197: handleTouchStart(e)
OvTouchStart ==
    /\ ~touching
    /\ touching' = TRUE
    /\ ov' = [ov EXCEPT !.touchSettledAtBottom = ov.settledAtBottom /\ isAtBottom(page),
                        !.dispatched = None]
    /\ UNCHANGED <<page, scrollPending, sinceDispatch, bottomFor>>
    /\ UNCHANGED <<torrentVars, bbVars, cliVars, miVars, sumVars, langVars, innerVars, tmpVars, debVars, loadVars, stepVars>>

\* a touch move
OvTouchMove ==
    \E deltaY \in Deltas :
        /\ touching
        /\ ov' = handleTouchMove([ov EXCEPT !.dispatched = None], page, deltaY, Snapshot)
        /\ sinceDispatch' = IF ov'.dispatched /= None THEN 0 ELSE sinceDispatch
        /\ UNCHANGED <<page, touching, scrollPending, bottomFor>>
        /\ UNCHANGED <<torrentVars, bbVars, cliVars, miVars, sumVars, langVars, innerVars, tmpVars, debVars, loadVars, stepVars>>

\* lines 226-230: handleTouchEnd()
OvTouchEnd ==
    /\ touching
    /\ touching' = FALSE
    /\ ov' = checkScrollSettle([ov EXCEPT !.cumulativeScroll = 0,
                                          !.dispatched = None], page)
    /\ UNCHANGED <<page, scrollPending, sinceDispatch, bottomFor>>
    /\ UNCHANGED <<torrentVars, bbVars, cliVars, miVars, sumVars, langVars, innerVars, tmpVars, debVars, loadVars, stepVars>>

\* the page scrolls (by wheel, by touch, or because its height changes); the
\* scroll event follows
OvPageScrolls ==
    \E pg \in PagePositions \ {page} :
        /\ page' = pg
        /\ scrollPending' = TRUE
        /\ bottomFor' = IF isAtBottom(pg) /\ isAtBottom(page) THEN bottomFor ELSE 0
        /\ ov' = [ov EXCEPT !.dispatched = None]
        /\ UNCHANGED <<touching, sinceDispatch>>
        /\ UNCHANGED <<torrentVars, bbVars, cliVars, miVars, sumVars, langVars, innerVars, tmpVars, debVars, loadVars, stepVars>>

\* lines 232-234: handleScroll()
OvScroll ==
    /\ scrollPending
    /\ scrollPending' = FALSE
    /\ ov' = checkScrollSettle([ov EXCEPT !.dispatched = None], page)
    /\ UNCHANGED <<page, touching, sinceDispatch, bottomFor>>
    /\ UNCHANGED <<torrentVars, bbVars, cliVars, miVars, sumVars, langVars, innerVars, tmpVars, debVars, loadVars, stepVars>>

\* lines 113-115: the cooldown's timer runs
OvCooldownEnds ==
    /\ ov.cooldownTimeout = 0
    /\ ov' = [ov EXCEPT !.isInCooldown = FALSE, !.cooldownTimeout = NoTimer,
                        !.dispatched = None]
    /\ UNCHANGED <<page, touching, scrollPending, sinceDispatch, bottomFor>>
    /\ UNCHANGED <<torrentVars, bbVars, cliVars, miVars, sumVars, langVars, innerVars, tmpVars, debVars, loadVars, stepVars>>

\* lines 118-121: resetCumulativeScroll, run by the timer of line 174
OvResetTimer ==
    /\ ov.resetTimeout = 0
    /\ ov' = [ov EXCEPT !.cumulativeScroll = 0, !.resetTimeout = NoTimer,
                        !.dispatched = None]
    /\ UNCHANGED <<page, touching, scrollPending, sinceDispatch, bottomFor>>
    /\ UNCHANGED <<torrentVars, bbVars, cliVars, miVars, sumVars, langVars, innerVars, tmpVars, debVars, loadVars, stepVars>>

\* lines 127-131: the settle timer runs
OvSettleTimer ==
    /\ ov.scrollSettleTimeout = 0
    /\ ov' = [ov EXCEPT !.settledAtBottom = IF isAtBottom(page) THEN TRUE ELSE @,
                        !.scrollSettleTimeout = NoTimer,
                        !.dispatched = None]
    /\ UNCHANGED <<page, touching, scrollPending, sinceDispatch, bottomFor>>
    /\ UNCHANGED <<torrentVars, bbVars, cliVars, miVars, sumVars, langVars, innerVars, tmpVars, debVars, loadVars, stepVars>>

\* lines 255-257: update(newOptions) with another enableLoadMore
OvUpdate ==
    /\ ov' = [ov EXCEPT !.enableLoadMore = ~@, !.dispatched = None]
    /\ UNCHANGED <<page, touching, scrollPending, sinceDispatch, bottomFor>>
    /\ UNCHANGED <<torrentVars, bbVars, cliVars, miVars, sumVars, langVars, innerVars, tmpVars, debVars, loadVars, stepVars>>

\* 100 ms pass: every pending timer is that much nearer to being due; a timer
\* that is due runs then or later.  A scroll event is dispatched within the
\* frame, before that much time has passed
TickDown(t) == IF t > 0 THEN t - 1 ELSE t
OvTick ==
    /\ ~scrollPending
    /\ ov' = [ov EXCEPT !.resetTimeout = TickDown(@),
                        !.scrollSettleTimeout = TickDown(@),
                        !.cooldownTimeout = TickDown(@),
                        !.dispatched = None]
    /\ sinceDispatch' = IF sinceDispatch < LoadMoreCooldown THEN sinceDispatch + 1
                        ELSE sinceDispatch
    /\ bottomFor' = IF isAtBottom(page) /\ bottomFor < SettleDelay THEN bottomFor + 1
                    ELSE bottomFor
    /\ UNCHANGED <<page, touching, scrollPending>>
    /\ UNCHANGED <<torrentVars, bbVars, cliVars, miVars, sumVars, langVars, innerVars, tmpVars, debVars, loadVars, stepVars>>

OvNext ==
    \/ OvWheel \/ OvTouchStart \/ OvTouchMove \/ OvTouchEnd \/ OvPageScrolls
    \/ OvScroll \/ OvCooldownEnds \/ OvResetTimer \/ OvSettleTimer \/ OvUpdate
    \/ OvTick

InitOverscroll == TorrentIdle /\ BBIdle /\ CliIdle /\ MIIdle /\ SumIdle /\ LangIdle /\ InnerIdle /\ TmpIdle /\ DebIdle /\ OvInit /\ LoadIdle /\ StepIdle
SpecOverscroll == InitOverscroll /\ [][OvNext]_vars

-----------------------------------------------------------------------------
(* loadMediaInfoContent: the release page, lines 72-103                      *)

MaxLoadCalls == 5   \* calls of loadMediaInfoContent in one run
MaxFetches == 4     \* fetches issued in one run

Hashes == {"h1", "h2"}

\* mutant: the guard does not look at loadingMediaInfo
mayFetchUnlessLoaded(hash, loaded, loading) == hash \notin loaded
\* line 77, negated: the call goes on to fetch
mayFetch(hash, loaded, loading) == ~(hash \in loaded \/ hash \in loading)

\* lines 73-74
LoadInit ==
    /\ loadedMediaInfo = {}
    /\ loadingMediaInfo = {}
    /\ pending = {}
    /\ issued = <<>>
    /\ settled = <<>>
    /\ loadCalls = 0

\* lines 76-82: a call, from the effect of lines 96-102 or a rerun of it; it
\* returns at once, or marks the hash as loading and waits for fetch
LoadMediaInfoContent ==
    \E hash \in Hashes :
        /\ loadCalls < MaxLoadCalls
        /\ loadCalls' = loadCalls + 1
        /\ IF mayFetch(hash, loadedMediaInfo, loadingMediaInfo)
           THEN /\ Len(issued) < MaxFetches
                /\ loadingMediaInfo' = loadingMediaInfo \cup {hash}
                /\ pending' = pending \cup
                       {[id |-> Len(issued) + 1, hash |-> hash, at |-> "fetch"]}
                /\ issued' = Append(issued,
                       [hash |-> hash, loaded |-> loadedMediaInfo,
                        inFlight |-> {c.hash : c \in pending}])
           ELSE UNCHANGED <<loadingMediaInfo, pending, issued>>
        /\ UNCHANGED <<loadedMediaInfo, settled>>
        /\ UNCHANGED <<torrentVars, bbVars, cliVars, miVars, sumVars, langVars, innerVars, tmpVars, debVars, ovVars, stepVars>>

\* lines 82-84: fetch resolves with response.ok; the call waits for the text
FetchOk ==
    \E c \in pending :
        /\ c.at = "fetch"
        /\ pending' = (pending \ {c}) \cup {[c EXCEPT !.at = "text"]}
        /\ UNCHANGED <<loadedMediaInfo, loadingMediaInfo, issued, settled, loadCalls>>
        /\ UNCHANGED <<torrentVars, bbVars, cliVars, miVars, sumVars, langVars, innerVars, tmpVars, debVars, ovVars, stepVars>>

\* lines 82-83, 89-93: fetch resolves with a response that is not ok
FetchNotOk ==
    \E c \in pending :
        /\ c.at = "fetch"
        /\ pending' = pending \ {c}
        /\ loadingMediaInfo' = loadingMediaInfo \ {c.hash}
        /\ settled' = Append(settled, [hash |-> c.hash, went |-> "notOk"])
        /\ UNCHANGED <<loadedMediaInfo, issued, loadCalls>>
        /\ UNCHANGED <<torrentVars, bbVars, cliVars, miVars, sumVars, langVars, innerVars, tmpVars, debVars, ovVars, stepVars>>

\* lines 82, 87-93: fetch rejects
FetchThrows ==
    \E c \in pending :
        /\ c.at = "fetch"
        /\ pending' = pending \ {c}
        /\ loadingMediaInfo' = loadingMediaInfo \ {c.hash}
        /\ settled' = Append(settled, [hash |-> c.hash, went |-> "thrown"])
        /\ UNCHANGED <<loadedMediaInfo, issued, loadCalls>>
        /\ UNCHANGED <<torrentVars, bbVars, cliVars, miVars, sumVars, langVars, innerVars, tmpVars, debVars, ovVars, stepVars>>

\* lines 84-85, 89-93: response.text() resolves
TextRead ==
    \E c \in pending :
        /\ c.at = "text"
        /\ pending' = pending \ {c}
        /\ loadedMediaInfo' = loadedMediaInfo \cup {c.hash}
        /\ loadingMediaInfo' = loadingMediaInfo \ {c.hash}
        /\ settled' = Append(settled, [hash |-> c.hash, went |-> "ok"])
        /\ UNCHANGED <<issued, loadCalls>>
        /\ UNCHANGED <<torrentVars, bbVars, cliVars, miVars, sumVars, langVars, innerVars, tmpVars, debVars, ovVars, stepVars>>

\* lines 84, 87-93: response.text() rejects (the body cannot be read)
TextThrows ==
    \E c \in pending :
        /\ c.at = "text"
        /\ pending' = pending \ {c}
        /\ loadingMediaInfo' = loadingMediaInfo \ {c.hash}
        /\ settled' = Append(settled, [hash |-> c.hash, went |-> "okUnread"])
        /\ UNCHANGED <<loadedMediaInfo, issued, loadCalls>>
        /\ UNCHANGED <<torrentVars, bbVars, cliVars, miVars, sumVars, langVars, innerVars, tmpVars, debVars, ovVars, stepVars>>

LoadNext ==
    \/ LoadMediaInfoContent
    \/ FetchOk
    \/ FetchNotOk
    \/ FetchThrows
    \/ TextRead
    \/ TextThrows

InitLoad == TorrentIdle /\ BBIdle /\ CliIdle /\ MIIdle /\ SumIdle /\ LangIdle /\ InnerIdle /\ TmpIdle /\ DebIdle /\ OvIdle /\ LoadInit /\ StepIdle
SpecLoad == InitLoad /\ [][LoadNext]_vars

-----------------------------------------------------------------------------
(* stepTorrents: scripts/create.ts, lines 207-255                            *)

MaxTorrentPrompts == 3     \* prompts for a torrent path in one run
MaxMediaInfoPrompts == 3   \* prompts for a MediaInfo report in one run

\* parseTorrent(torrentPath) as a function of the file: scripts/lib/torrent.ts
parseTorrent(file) ==
    IF file.ok /\ IsSome(file.info)
    THEN [threw |-> FALSE, name |-> toStr(Val(file.info).name),
          files |-> TorrentFiles(Val(file.info))]
    ELSE [threw |-> TRUE, name |-> <<>>, files |-> <<>>]

\* the files the user may name: one that is no bencode, one with no info
\* dictionary, a single-file and a multi-file torrent
StepTorrentFiles ==
    { [ok |-> FALSE, info |-> None],
      [ok |-> TRUE, info |-> None],
      [ok |-> TRUE, info |-> Some([name |-> Str(<<"S">>), files |-> None,
                                    length |-> Some(100)])],
      [ok |-> TRUE,
       info |-> Some([name |-> Bytes(<<65>>),
                      files |-> Some(<<[path |-> <<Str(<<"e">>)>>,
                                        length |-> 100]>>),
                      length |-> None])] }

\* what the user may paste as a MediaInfo report: blank, a report with no
\* "Complete name" line, a report with one
UnknownMkv == <<"unknown.mkv">>
MediaInfoContents ==
    { [text |-> <<" ">>, completeName |-> None],
      [text |-> <<"r">>, completeName |-> None],
      [text |-> <<"r">>, completeName |-> Some(<<"a.mkv">>)] }

\* lines 228-231
filenameOf(pasted) ==
    IF IsSome(pasted.completeName) THEN Val(pasted.completeName)
    ELSE UnknownMkv

\* mutant: the loop goes on only if the user asks for it
whileTorrentsIfAsked(list, addMore) == addMore
\* line 253: the condition of the outer loop
whileTorrents(list, addMore) == Len(list) = 0 \/ addMore
\* line 239: the condition of the inner loop
whileMediaInfo(list, addMore) == Len(list) = 0 \/ addMore

Event(what, n) == [what |-> what, torrents |-> n]
Prompts(what) == Len(SelectSeq(events, LAMBDA e : e.what = what))

\* lines 208-209
StepInit ==
    /\ step = "promptTorrentPath"
    /\ torrents = <<>>
    /\ torrentPath = <<>>
    /\ parsedTorrent = <<>>
    /\ display_name = <<>>
    /\ mediainfo = <<>>
    /\ toWrite = <<>>
    /\ hashes = 0
    /\ events = <<>>

\* line 212: the user names a file
PromptTorrentPath ==
    \E file \in StepTorrentFiles :
        /\ step = "promptTorrentPath"
        /\ Prompts("promptTorrentPath") < MaxTorrentPrompts
        /\ torrentPath' = Some(file)
        /\ events' = Append(events, Event("promptTorrentPath", Len(torrents)))
        /\ step' = "parseTorrent"
        /\ UNCHANGED <<torrents, parsedTorrent, display_name, mediainfo, toWrite, hashes>>
        /\ UNCHANGED <<torrentVars, bbVars, cliVars, miVars, sumVars, langVars, innerVars, tmpVars, debVars, ovVars, loadVars>>

\* lines 214-215, or 250-252 when parseTorrent throws
ParseTorrent ==
    /\ step = "parseTorrent"
    /\ LET r == parseTorrent(Val(torrentPath))
       IN  IF r.threw
           THEN /\ events' = Append(events, Event("parseFailed", Len(torrents)))
                /\ step' = "whileTorrents"
                /\ UNCHANGED parsedTorrent
           ELSE /\ events' = Append(events, Event("parsed", Len(torrents)))
                /\ parsedTorrent' = Some([name |-> r.name, files |-> r.files])
                /\ step' = "promptDisplayName"
    /\ UNCHANGED <<torrents, torrentPath, display_name, mediainfo, toWrite, hashes>>
    /\ UNCHANGED <<torrentVars, bbVars, cliVars, miVars, sumVars, langVars, innerVars, tmpVars, debVars, ovVars, loadVars>>

\* lines 217-220
PromptDisplayName ==
    /\ step = "promptDisplayName"
    /\ \E answer \in {Val(parsedTorrent).name, <<"D">>} :
        /\ display_name' = answer
        /\ mediainfo' = <<>>
        /\ step' = "promptMediaInfo"
        /\ UNCHANGED <<torrents, torrentPath, parsedTorrent, toWrite, hashes, events>>
        /\ UNCHANGED <<torrentVars, bbVars, cliVars, miVars, sumVars, langVars, innerVars, tmpVars, debVars, ovVars, loadVars>>

\* lines 222-235: blank content is skipped (continue goes to the condition of
\* the loop), other content is written to a file named by a new hash
PromptMediaInfo ==
    \E pasted \in MediaInfoContents :
        /\ step = "promptMediaInfo"
        /\ Prompts("promptMediaInfo") < MaxMediaInfoPrompts
        /\ events' = Append(events, Event("promptMediaInfo", Len(torrents)))
        /\ IF trim(pasted.text) = <<>>
           THEN /\ step' = "whileMediaInfo"
                /\ UNCHANGED <<toWrite, hashes>>
           ELSE /\ toWrite' = Some([content |-> pasted,
                                    filename |-> filenameOf(pasted),
                                    raw_hash |-> hashes + 1])
                /\ hashes' = hashes + 1
                /\ step' = "writeFile"
        /\ UNCHANGED <<torrents, torrentPath, parsedTorrent, display_name, mediainfo>>
        /\ UNCHANGED <<torrentVars, bbVars, cliVars, miVars, sumVars, langVars, innerVars, tmpVars, debVars, ovVars, loadVars>>

\* lines 235-238: fs.writeFile resolves, or rejects and the catch of lines
\* 250-252 has it
WriteFile ==
    \E written \in BOOLEAN :
        /\ step = "writeFile"
        /\ IF written
           THEN /\ mediainfo' = Append(mediainfo,
                       [filename |-> Val(toWrite).filename,
                        raw_hash |-> Val(toWrite).raw_hash])
                /\ step' = "whileMediaInfo"
                /\ UNCHANGED events
           ELSE /\ events' = Append(events, Event("writeFailed", Len(torrents)))
                /\ step' = "whileTorrents"
                /\ UNCHANGED mediainfo
        /\ toWrite' = None
        /\ UNCHANGED <<torrents, torrentPath, parsedTorrent, display_name, hashes>>
        /\ UNCHANGED <<torrentVars, bbVars, cliVars, miVars, sumVars, langVars, innerVars, tmpVars, debVars, ovVars, loadVars>>

\* lines 239-248: the condition of the inner loop, with the answer to
\* promptAddMore if it comes to that; after the loop the torrent is pushed
WhileMediaInfo ==
    \E addMore \in BOOLEAN :
        /\ step = "whileMediaInfo"
        /\ IF whileMediaInfo(mediainfo, addMore)
           THEN /\ step' = "promptMediaInfo"
                /\ UNCHANGED torrents
           ELSE /\ torrents' = Append(torrents,
                       [name |-> Val(parsedTorrent).name,
                        display_name |-> display_name,
                        files |-> Val(parsedTorrent).files,
                        mediainfo |-> mediainfo,
                        from |-> Val(torrentPath)])
                /\ step' = "whileTorrents"
        /\ UNCHANGED <<torrentPath, parsedTorrent, display_name, mediainfo, toWrite, hashes, events>>
        /\ UNCHANGED <<torrentVars, bbVars, cliVars, miVars, sumVars, langVars, innerVars, tmpVars, debVars, ovVars, loadVars>>

\* lines 253-255: the condition of the outer loop, with the answer to
\* promptAddMore if it comes to that
WhileTorrents ==
    \E addMore \in BOOLEAN :
        /\ step = "whileTorrents"
        /\ events' = IF Len(torrents) = 0 THEN events
                     ELSE Append(events, Event("promptAddMore", Len(torrents)))
        /\ step' = IF whileTorrents(torrents, addMore)
                   THEN "promptTorrentPath" ELSE "returned"
        /\ UNCHANGED <<torrents, torrentPath, parsedTorrent, display_name, mediainfo, toWrite, hashes>>
        /\ UNCHANGED <<torrentVars, bbVars, cliVars, miVars, sumVars, langVars, innerVars, tmpVars, debVars, ovVars, loadVars>>

StepNext ==
    \/ PromptTorrentPath
    \/ ParseTorrent
    \/ PromptDisplayName
    \/ PromptMediaInfo
    \/ WriteFile
    \/ WhileMediaInfo
    \/ WhileTorrents

InitStep == TorrentIdle /\ BBIdle /\ CliIdle /\ MIIdle /\ SumIdle /\ LangIdle /\ InnerIdle /\ TmpIdle /\ DebIdle /\ OvIdle /\ LoadIdle /\ StepInit
SpecStep == InitStep /\ [][StepNext]_vars

-----------------------------------------------------------------------------
(* What the claims say of an input, read off the tokens it was written from *)

\* the tags of ts, properly nested: every closer closes the innermost open
\* block, which is of its kind, and no block stays open
RECURSIVE NestedFrom(_, _, _)
NestedFrom(ts, i, stack) ==
    IF i > Len(ts) THEN stack = <<>>
    ELSE IF ts[i].kind = "open" THEN NestedFrom(ts, i + 1, <<ts[i].tag>> \o stack)
    ELSE IF ts[i].kind = "close"
         THEN /\ stack /= <<>>
              /\ Head(stack) = ts[i].tag
              /\ NestedFrom(ts, i + 1, Tail(stack))
    ELSE NestedFrom(ts, i + 1, stack)
WellNested(ts) == NestedFrom(ts, 1, <<>>)

\* the outermost blocks of a properly nested ts, in order: the title of the
\* opener and the text between the opener and its closer
RECURSIVE BlocksFrom(_, _, _, _)
BlocksFrom(ts, i, open, start) ==
    IF i > Len(ts) THEN <<>>
    ELSE IF ts[i].kind = "open"
         THEN BlocksFrom(ts, i + 1, open + 1, IF open = 0 THEN i ELSE start)
    ELSE IF ts[i].kind = "close"
         THEN IF open = 1
              THEN <<[title |-> ts[start].title,
                      content |-> InputOf(SubSeq(ts, start + 1, i - 1))]>>
                   \o BlocksFrom(ts, i + 1, 0, 0)
              ELSE BlocksFrom(ts, i + 1, open - 1, start)
    ELSE BlocksFrom(ts, i + 1, open, start)
OutermostBlocks(ts) == BlocksFrom(ts, 1, 0, 0)

HasTag(ts, tag) == \E i \in 1..Len(ts) : ts[i].tag = tag
ExReturned == ex.pc = "returned"

\* C2: when the [quote=T] and [/quote] tags of the input are balanced (and it
\* holds no other tags), the call returns exactly the outermost blocks, in
\* order, each with its trimmed title and, as content, the exact text between
\* its opener and the matching closer.
C2_BalancedQuotesGiveOutermost ==
    (ExReturned /\ ~HasTag(tokens, "spoiler") /\ WellNested(tokens))
    => ex.results = OutermostBlocks(tokens)

\* C4: for [quote=A] body [/quote] whose body holds spoiler tags and text but
\* no quote tag, the call returns exactly one block, titled A, whose content
\* is the body: it ends at the quote's own closer.
C4_SpoilerTagsInsideQuote ==
    (/\ ExReturned
     /\ Len(tokens) >= 2
     /\ tokens[1] = Tok.QA
     /\ tokens[Len(tokens)] = Tok.CQ
     /\ ~HasTag(SubSeq(tokens, 2, Len(tokens) - 1), "quote"))
    => ex.results = <<[title |-> <<"A">>,
                       content |-> InputOf(SubSeq(tokens, 2, Len(tokens) - 1))]>>

\* C3: an opener with no closer, followed by properly nested blocks: every
\* outermost block after the opener is returned.
C3_UnmatchedOpenerIsSkipped ==
    (/\ ExReturned
     /\ Len(tokens) >= 1
     /\ tokens[1].kind = "open"
     /\ WellNested(Tail(tokens)))
    => ex.results = OutermostBlocks(Tail(tokens))

-----------------------------------------------------------------------------
(* What the claims say of a report, read off the lines it was written from  *)

\* the blocks of a report: the runs of lines between blank lines
RECURSIVE BlocksOfReport(_, _)
BlocksOfReport(rep, cur) ==
    IF rep = <<>> THEN (IF cur = <<>> THEN <<>> ELSE <<cur>>)
    ELSE IF Head(rep) = Line.Blank
         THEN (IF cur = <<>> THEN <<>> ELSE <<cur>>) \o BlocksOfReport(Tail(rep), <<>>)
    ELSE BlocksOfReport(Tail(rep), Append(cur, Head(rep)))
ReportBlocks == BlocksOfReport(report, <<>>)

\* the values of key in block b, in the order of the lines after the header
RECURSIVE ValuesIn(_, _, _)
ValuesIn(b, i, key) ==
    IF i > Len(b) THEN <<>>
    ELSE (IF b[i].key = key THEN <<b[i].value>> ELSE <<>>) \o ValuesIn(b, i + 1, key)
KeysIn(b) == {b[i].key : i \in 2..Len(b)} \ {<<>>}

\* the section parseMediaInfo made of block j: under the base name of its
\* header, after the sections of the earlier blocks with that base name
SectionOfBlock(j) ==
    LET bs == ReportBlocks
        earlier == Cardinality({i \in 1..(j - 1) : bs[i][1].base = bs[j][1].base})
    IN  sectionsOf(parsed, bs[j][1].base)[earlier + 1]

MIParsed == mpc \in {"parsed", "structured"}

\* C5: the tolerant parsers never throw: every call of parseMediaInfo and
\* toStructured (any header text, any key text, empty input) returns.
C5_TolerantParsersNeverThrow == mpc /= "threw"

\* C9: in every section a key that occurs once maps to its value, and a key
\* that occurs k >= 2 times maps to the sequence of its k values in order.
C9_RepeatedKeysAggregate ==
    MIParsed =>
        \A j \in 1..Len(ReportBlocks) :
            \A key \in KeysIn(ReportBlocks[j]) :
                LET data == SectionOfBlock(j).data
                    vs == ValuesIn(ReportBlocks[j], 2, key)
                IN  /\ HasOwn(data, key)
                    /\ data[OwnAt(data, key)].vals = vs
                    /\ data[OwnAt(data, key)].many = (Len(vs) >= 2)

\* the blocks headed Audio or Audio #N, in document order
AudioBlocks == SelectSeq(ReportBlocks, LAMBDA b : b[1].base = Key.Audio)
FormatOfBlock(b) ==
    IF ValuesIn(b, 2, Key.Format) = <<>> THEN None ELSE Some(ValuesIn(b, 2, Key.Format)[1])

\* C10: the blocks headed Audio and Audio #N are all under the base name
\* Audio, in document order, with N as index; and the structured audio
\* sequence has exactly one element per such block, in document order.
C10_AudioGroupedInDocumentOrder ==
    /\ MIParsed =>
          LET secs == sectionsOf(parsed, Key.Audio)
          IN  /\ Len(secs) = Len(AudioBlocks)
              /\ \A i \in 1..Len(secs) :
                    /\ secs[i].header = AudioBlocks[i][1].str
                    /\ secs[i].index = AudioBlocks[i][1].index
    /\ mpc = "structured" =>
          LET audio == Val(structured).audio
          IN  IF AudioBlocks = <<>> THEN audio = None
              ELSE /\ IsSome(audio)
                   /\ Len(Val(audio)) = Len(AudioBlocks)
                   /\ \A i \in 1..Len(AudioBlocks) :
                         Val(audio)[i].format = FormatOfBlock(AudioBlocks[i])

\* C10 witness: a structured report with an Audio #2 block before a plain
\* Audio block, told apart by their formats
C10_Witness ==
    /\ mpc = "structured"
    /\ Len(AudioBlocks) >= 2
    /\ AudioBlocks[1][1] = Line.A2
    /\ AudioBlocks[2][1] = Line.A
    /\ FormatOfBlock(AudioBlocks[1]) /= FormatOfBlock(AudioBlocks[2])
    /\ IsSome(FormatOfBlock(AudioBlocks[1]))
    /\ IsSome(FormatOfBlock(AudioBlocks[2]))


\* the blocks headed by a line of the given base name, in document order
KindBlocks(base) == SelectSeq(ReportBlocks, LAMBDA b : b[1].base = base)
\* what the fields of a structured section have to be for block b: the first
\* value of Format, and nothing for the keys no line of a report gives
FieldsOfBlock(b, fields) ==
    [f \in fields |-> IF f = "format" THEN FormatOfBlock(b) ELSE None]
\* a structured list is null when its kind has no block, and else has the
\* first values of each block of the kind, block by block
ListIsOfBlocks(list, bs, fields) ==
    IF bs = <<>> THEN list = None
    ELSE /\ IsSome(list)
         /\ Len(Val(list)) = Len(bs)
         /\ \A i \in 1..Len(bs) : Val(list)[i] = FieldsOfBlock(bs[i], fields)

\* C11: toStructured builds general from the first General section only, takes
\* the first element of every aggregated value it projects, and gives null
\* for a section kind the input does not have.
C11_FirstSectionFirstValue ==
    mpc = "structured" =>
        LET st == Val(structured)
            gs == KindBlocks(Key.General)
        IN  /\ IF gs = <<>> THEN st.general = None
               ELSE st.general =
                        Some(FieldsOfBlock(gs[1], {"file_name", "format", "duration",
                                                   "file_size", "bit_rate"}))
            /\ ListIsOfBlocks(st.video, KindBlocks(Key.Video),
                               {"format", "format_profile", "codec", "width", "height",
                                "bit_depth", "hdr_format", "transfer_characteristics",
                                "frame_rate", "bit_rate"})
            /\ ListIsOfBlocks(st.audio, KindBlocks(Key.Audio),
                               {"format", "format_profile", "channels", "bit_rate",
                                "title", "language", "commercial_name"})
            /\ ListIsOfBlocks(st.text, KindBlocks(Key.Text), {"format", "title", "language"})

\* C11 witness: two General sections with different formats, the first with
\* an aggregated Format, and no Video section
C11_Witness ==
    /\ mpc = "structured"
    /\ Len(KindBlocks(Key.General)) = 2
    /\ Len(ValuesIn(KindBlocks(Key.General)[1], 2, Key.Format)) = 2
    /\ FormatOfBlock(KindBlocks(Key.General)[1]) /= FormatOfBlock(KindBlocks(Key.General)[2])
    /\ IsSome(FormatOfBlock(KindBlocks(Key.General)[2]))
    /\ Val(structured).video = None

-----------------------------------------------------------------------------
(* What the claims say of a summary, read off the streams it was made from   *)

FirstVideo == Val(media.video)[1]

\* the marker the claim gives the first video stream: by the HDR format label
\* alone when there is one, by the transfer characteristics when there is none
MarkerOfLabel(str) == (CHOOSE t \in HdrLabels : t.str = str).marker
MarkerOfTransfer(str) == (CHOOSE t \in Transfers : t.str = str).marker
ExpectedMarker(v) ==
    IF Truthy(v.hdr_format) THEN MarkerOfLabel(Val(v.hdr_format))
    ELSE IF Truthy(v.transfer_characteristics)
    THEN MarkerOfTransfer(Val(v.transfer_characteristics))
    ELSE <<>>

\* the video segment of the same stream without its two HDR fields
WithoutHdr(st) ==
    [st EXCEPT !.video = Some(<<[FirstVideo EXCEPT !.hdr_format = None,
                                     !.transfer_characteristics = None]>>)]
SegmentWithMarker(st, m) ==
    join(videoParts(WithoutHdr(st)) \o (IF m = <<>> THEN <<>> ELSE <<m>>),
        <<" ">>)

\* C12: the HDR marker of the video segment is the one the HDR format label of
\* the first video stream gives (dolby vision: DV, else hdr10+: HDR10+, else
\* hdr10: HDR10, else hlg: HLG, else HDR) whenever the stream has such a label;
\* only without a label the transfer characteristics decide (pq or smpte st
\* 2084: HDR10, hlg: HLG, anything else: no marker)
C12_HdrMarkerByLabelThenTransfer ==
    (gpc = "video" /\ NonEmptyList(media.video)) =>
        /\ getHDRInfo(media.video) = ExpectedMarker(FirstVideo)
        /\ parts = SelectSeq(<<SegmentWithMarker(media, ExpectedMarker(FirstVideo))>>,
                             LAMBDA seg : seg /= <<>>)

\* the bit-depth marker the claim gives the first video stream: none without
\* a depth and none for 8 bits, else the number of bits and "-bit"
BitsOf(str) == (CHOOSE t \in Depths : t.str = str).bits
ExpectedDepthMarker(v) ==
    IF Truthy(v.bit_depth) /\ BitsOf(Val(v.bit_depth)) /= 8
    THEN <<NumberToString(BitsOf(Val(v.bit_depth))) \o <<"-", "b", "i", "t">>>>
    ELSE <<>>
\* the video segment of the stream with its depth marker put where the code
\* puts it, after the codec
SegmentWithDepth(st, m) ==
    LET v == Val(st.video)[1]
        codec == IF Truthy(v.format) THEN <<Val(v.format)>> ELSE <<>>
        rest == videoParts([st EXCEPT !.video =
                                Some(<<[v EXCEPT !.format = None,
                                           !.bit_depth = None]>>)])
    IN  join(codec \o m \o rest, <<" ">>)

\* C22: the video segment has a bit-depth marker, after the codec, exactly
\* when the first video stream states a bit depth and that depth is not 8
\* bits; without a depth or with 8 bits it has none
C22_DepthMarkerUnlessEightBits ==
    (gpc = "video" /\ NonEmptyList(media.video)) =>
        parts = SelectSeq(<<SegmentWithDepth(media, ExpectedDepthMarker(FirstVideo))>>,
                          LAMBDA seg : seg /= <<>>)

\* the example of the specification: no label, transfer SMPTE ST 2084
C12_Witness ==
    /\ gpc = "returned"
    /\ NonEmptyList(media.video)
    /\ FirstVideo.hdr_format = None
    /\ FirstVideo.transfer_characteristics = Some(<<"S", "M", "P", "T", "E",
        " ", "S", "T", " ", "2", "0", "8", "4">>)
    /\ summary = <<"H", "E", "V", "C", " ", "1", "0", "-", "b", "i", "t", " ",
        "4", "K", " ", "H", "D", "R", "1", "0">>

\* the distinct members of a list, each at the place of its first occurrence
RECURSIVE Ascending(_)
Ascending(S) ==
    IF S = {} THEN <<>>
    ELSE LET m == CHOOSE x \in S : \A y \in S : x <= y
         IN  <<m>> \o Ascending(S \ {m})
FirstOccurrences(xs) ==
    LET firsts == Ascending({i \in 1..Len(xs) : \A j \in 1..(i - 1) : xs[j] /= xs[i]})
    IN  [k \in 1..Len(firsts) |-> xs[firsts[k]]]

\* what the steps before the present one have pushed
HasVideoSegment == NonEmptyList(media.video) /\ videoParts(media) /= <<>>
HasAudioSegment == NonEmptyList(media.audio) /\ audioPart(media) /= <<>>
PartsAfter(n) == SubSeq(parts, n + 1, Len(parts))

\* the descriptors of the audio streams, as the streams were written
\* the descriptor the claims give a stream: what its commercial name decides,
\* else what its format code stands for, else nothing; then the layout
DecidedBy(c) ==
    IF Truthy(c) THEN (CHOOSE t \in CommercialNames : t.str = Val(c)).decides
    ELSE <<>>
DescOfFormat(f) ==
    IF Truthy(f) THEN (CHOOSE t \in Formats : t.str = Val(f)).desc ELSE <<>>
LayoutOf(ch) ==
    IF Truthy(ch) THEN (CHOOSE t \in ChannelCounts : t.str = Val(ch)).layout
    ELSE <<>>
ExpectedName(a) ==
    IF DecidedBy(a.commercial_name) /= <<>> THEN DecidedBy(a.commercial_name)
    ELSE DescOfFormat(a.format)
ExpectedDescriptor(a) ==
    IF ExpectedName(a) /= <<>> /\ LayoutOf(a.channels) /= <<>>
    THEN ExpectedName(a) \o <<" ">> \o LayoutOf(a.channels)
    ELSE ExpectedName(a)
DescOfStream(a) ==
    IF \E t \in AudioTokens : t.stream = a
    THEN (CHOOSE t \in AudioTokens : t.stream = a).desc
    ELSE ExpectedDescriptor(a)
AudioDescs ==
    IF media.audio = None THEN <<>>
    ELSE [i \in 1..Len(Val(media.audio)) |-> DescOfStream(Val(media.audio)[i])]
DistinctDescs == FirstOccurrences(SelectSeq(AudioDescs, LAMBDA x : x /= <<>>))

\* C17: the audio segment is the first two distinct non-empty descriptors of
\* the audio streams, in stream order and joined by " + " (one descriptor
\* alone when there is one, no segment when there is none): no descriptor
\* twice, never a third
C17_FirstTwoDistinctDescriptors ==
    gpc = "audio" =>
        PartsAfter(IF HasVideoSegment THEN 1 ELSE 0) =
            (IF DistinctDescs = <<>> THEN <<>>
             ELSE <<join(SubSeq(DistinctDescs, 1, Min(2, Len(DistinctDescs))),
                 <<" ", "+", " ">>)>>)

\* C23: the descriptor of every audio stream is what its commercial name
\* decides when the name holds atmos, truehd or dts (Atmos, TrueHD, DTS-HD MA
\* for a dts name that holds HD, else DTS), whatever its format; only for
\* other names and without a name the format code decides (E-AC-3 and EAC3:
\* DD+, AC-3 and AC3: DD, AAC, FLAC, Opus, TrueHD, DTS, else the format as
\* written), and a stream alone shows exactly that descriptor and its layout
C23_CommercialNameThenFormat ==
    (gpc = "audio" /\ NonEmptyList(media.audio)) =>
        /\ \A i \in 1..Len(Val(media.audio)) :
               audioName(Val(media.audio)[i]) = ExpectedName(Val(media.audio)[i])
        /\ Len(Val(media.audio)) = 1 =>
               PartsAfter(IF HasVideoSegment THEN 1 ELSE 0) =
                   SelectSeq(<<ExpectedDescriptor(Val(media.audio)[1])>>,
                             LAMBDA seg : seg /= <<>>)
\* a commercial name with Atmos on an E-AC-3 stream, and E-AC-3 under a name
\* that decides nothing
C23_Witness ==
    /\ gpc = "returned"
    /\ NonEmptyList(media.audio)
    /\ Val(media.audio)[1].format = Some(Format.EAc3Joc.str)
    /\ \/ /\ Val(media.audio)[1].commercial_name = Some(Commercial.Atmos.str)
          /\ summary = <<"A", "t", "m", "o", "s", " ", "5", ".", "1">>
       \/ /\ Val(media.audio)[1].commercial_name = Some(Commercial.DDPlus.str)
          /\ summary = <<"D", "D", "+", " ", "5", ".", "1">>

\* three streams of three distinct descriptors: the third is left out
C17_Witness ==
    /\ gpc = "returned"
    /\ Len(DistinctDescs) = 3
    /\ DistinctDescs[3] = <<"D", "D", "+", " ", "5", ".", "1">>
    /\ summary = <<"A", "t", "m", "o", "s", " ", "7", ".", "1", " ", "+", " ",
        "D", "T", "S", "-", "H", "D", " ", "M", "A", " ", "5", ".", "1">>

\* the base languages of the text streams, as the streams were written
BaseOfStream(t) == (CHOOSE k \in TextTokens : k.stream = t).base
TextBases ==
    IF media.text = None THEN <<>>
    ELSE [i \in 1..Len(Val(media.text)) |-> BaseOfStream(Val(media.text)[i])]
DistinctBases ==
    FirstOccurrences([i \in 1..Len(SelectSeq(TextBases, IsSome)) |->
                         Val(SelectSeq(TextBases, IsSome)[i])])
CountOfSubs(n) == NumberToString(n) \o <<" ", "S", "u",
    "b">> \o (IF n = 1 THEN <<>> ELSE <<"s">>)

\* C18: without text streams the summary has no subtitle segment; with text
\* streams the segment is their count, followed by all the distinct base
\* languages in parentheses when these are 1 to 4, and by the first 3 of them
\* and an ellipsis when they are more than 4
C18_SubtitleCountAndLanguages ==
    gpc = "text" =>
        PartsAfter((IF HasVideoSegment THEN 1 ELSE 0) + (IF HasAudioSegment THEN 1 ELSE 0)) =
            (IF TextBases = <<>> THEN <<>>
             ELSE IF Len(DistinctBases) = 0 THEN <<CountOfSubs(Len(TextBases))>>
             ELSE IF Len(DistinctBases) <= 4
             THEN <<CountOfSubs(Len(TextBases)) \o <<" ",
                 "(">> \o join(DistinctBases, <<",", " ">>) \o <<")">>>>
             ELSE <<CountOfSubs(Len(TextBases)) \o <<" ", "(">>
                    \o join(SubSeq(DistinctBases, 1, 3), <<",",
                        " ">>) \o <<".", ".", ".", ")">>>>)

\* seven text streams of five distinct base languages
C18_Witness ==
    /\ gpc = "returned"
    /\ Len(TextBases) = 7
    /\ Len(DistinctBases) = 5
    /\ summary = <<"A", "V", "C", " ", "7", "2", "0", "p", " ", "|", " ", "A",
        "A", "C", " ", "|", " ", "7", " ", "S", "u", "b", "s", " ", "(", "E",
        "n", "g", "l", "i", "s", "h", ",", " ", "C", "h", "i", "n", "e", "s",
        "e", ",", " ", "F", "r", "e", "n", "c", "h", ".", ".", ".", ")">>

-----------------------------------------------------------------------------
(* What the claims say of the language flags, read off the labels            *)

\* the canonical languages the labels stand for, first to last
Canons == [i \in 1..Len(labels) |-> labels[i].canon]
DistinctCanons == FirstOccurrences(SelectSeq(Canons, LAMBDA c : c /= <<>>))

\* C13: getUniqueLanguageFlags returns one entry for each distinct canonical
\* language of its argument, in the order of first appearance and no language
\* twice, each with the flag of that language
C13_OneEntryPerCanonicalLanguage ==
    /\ lpc /= "uniqueThrew"
    /\ lpc = "uniqueReturned" =>
        /\ [i \in 1..Len(result) |-> result[i].language] = DistinctCanons
        /\ \A i \in 1..Len(result) :
               result[i].flag = getLanguageFlag(DistinctCanons[i]).value

\* C14: normalizeLanguage gives every label its canonical language: chinese
\* for every Chinese variant, cantonese for Cantonese, the language without
\* its parenthetical qualifier and without the marker words (SDH, CC, forced,
\* commentary, descriptive, hearing impaired, in any case), and the two
\* regional names spanish (latin america) and portuguese (brazil) as they are
C14_CanonicalLanguage ==
    (li > 0 /\ lpc \in {"unique", "uniqueReturned", "uniqueThrew"}) =>
        normalizedLang = labels[li].canon

\* Chinese (Traditional), Cantonese, an empty label, Chinese (Simplified),
\* English, Cantonese: three entries
C14_Witness ==
    /\ lpc = "uniqueReturned"
    /\ Len(labels) = 6
    /\ labels[1] = Label.ZhT /\ labels[2] = Label.Yue /\ labels[4] = Label.ZhS
    /\ [i \in 1..Len(result) |-> result[i].language] = <<<<"c", "h", "i", "n",
        "e", "s", "e">>, <<"c", "a", "n", "t", "o", "n", "e", "s", "e">>,
        <<"e", "n", "g", "l", "i", "s", "h">>>>

\* a label matches a key of the table exactly or by prefix
IsTableKey(l) == \E i \in 1..Len(languageToCountry) : languageToCountry[i][1] = l
MatchesByPrefix(l) ==
    \E i \in 1..Len(languageToCountry) :
        \/ startsWith(l, languageToCountry[i][1])
        \/ startsWith(languageToCountry[i][1], l)
FlagLabel == trim(toLowerCase(labels[1].str))

\* C15: getLanguageFlag returns a glyph whatever the label and never throws,
\* and the glyph is the globe when the label matches no key of the table,
\* neither exactly nor by prefix
C15_GlyphForEveryLabel ==
    /\ lpc /= "flagThrew"
    /\ lpc = "flagReturned" =>
        /\ flag /= <<>>
        /\ (~IsTableKey(FlagLabel) /\ ~MatchesByPrefix(FlagLabel)) => flag = Glyph.Globe

\* the code points of a string of UTF-16 code units
RECURSIVE CodePoints(_)
CodePoints(units) ==
    IF units = <<>> THEN <<>>
    ELSE IF Len(units) >= 2 /\ units[1] \in 55296..56319 /\ units[2] \in 56320..57343
    THEN <<65536 + (units[1] - 55296) * 1024 + (units[2] - 56320)>>
         \o CodePoints(SubSeq(units, 3, Len(units)))
    ELSE <<units[1]>> \o CodePoints(Tail(units))
RegionOf(l) == Val(lookupCountry(l))
LetterIndex(c) == CHOOSE i \in 1..26 : Ascii.upper[i] = c

\* C16: for every key of the table the flag is two code points, the regional
\* indicators 0x1F1E6 + (letter - 'A') of the two letters of the key's region
C16_TwoRegionalIndicators ==
    (lpc = "flagReturned" /\ IsTableKey(FlagLabel)) =>
        /\ Len(RegionOf(FlagLabel)) = 2
        /\ \A i \in 1..2 : \E k \in 1..26 : Ascii.upper[k] = RegionOf(FlagLabel)[i]
        /\ CodePoints(flag) =
              <<127462 + (LetterIndex(RegionOf(FlagLabel)[1]) - 1),
                127462 + (LetterIndex(RegionOf(FlagLabel)[2]) - 1)>>

-----------------------------------------------------------------------------
(* What the claims say of the HTML of a block's content                      *)

\* where s has an opening and a closing div
DivOpenings(s) == {i \in 0..(Len(s) - 1) : OccursAt(s, <<"<", "d", "i", "v">>,
    i)}
DivClosings(s) == {i \in 0..(Len(s) - 1) : OccursAt(s, <<"<", "/", "d", "i",
    "v", ">">>, i)}
\* every closing div closes an opening one that is still open, and none stays open
DivsNested(s) ==
    /\ Cardinality(DivOpenings(s)) = Cardinality(DivClosings(s))
    /\ \A c \in DivClosings(s) :
           Cardinality({o \in DivOpenings(s) : o < c})
               >= Cardinality({d \in DivClosings(s) : d <= c})
TagsOf(ts, kind) == SelectSeq(ts, LAMBDA t : t.kind = kind)

\* C19: for a content whose quote and spoiler tags are balanced, each opener
\* has become the wrapper (three opening divs, the title's closing div) and
\* each closer two closing divs, so that the HTML returned has as many
\* opening as closing divs, properly nested
C19_BalancedTagsGiveBalancedDivs ==
    (ipc = "returned" /\ WellNested(content)) =>
        /\ Cardinality(DivOpenings(innerResult)) = 3 * Len(TagsOf(content, "open"))
        /\ Cardinality(DivClosings(innerResult)) =
               Len(TagsOf(content, "open")) + 2 * Len(TagsOf(content, "close"))
        /\ DivsNested(innerResult)

\* the kind of tag a token opens and the kind it closes ("" for none): the
\* quote and spoiler tags, [b], [i] and [img]
OpensKind(t) ==
    IF t.kind = "open" THEN t.tag
    ELSE IF t = Tok.B THEN "b"
    ELSE IF t = Tok.IT THEN "i"
    ELSE IF t = Tok.IMG THEN "img"
    ELSE ""
ClosesKind(t) ==
    IF t.kind = "close" THEN t.tag
    ELSE IF t = Tok.CB THEN "b"
    ELSE IF t = Tok.CIT THEN "i"
    ELSE IF t = Tok.CIMG THEN "img"
    ELSE ""
\* every tag of ts from the i-th on closes the innermost open one, of its
\* kind, and none stays open
RECURSIVE PairedFrom(_, _, _)
PairedFrom(ts, i, stack) ==
    IF i > Len(ts) THEN stack = <<>>
    ELSE IF OpensKind(ts[i]) /= ""
         THEN PairedFrom(ts, i + 1, <<OpensKind(ts[i])>> \o stack)
    ELSE IF ClosesKind(ts[i]) /= ""
         THEN /\ stack /= <<>>
              /\ Head(stack) = ClosesKind(ts[i])
              /\ PairedFrom(ts, i + 1, Tail(stack))
    ELSE PairedFrom(ts, i + 1, stack)
\* how often the literal lit occurs in s, whatever the case of s
OccurrencesI(s, lit) ==
    Cardinality({i \in 0..(Len(s) - 1) : MatchesLiteralI(s, i, lit)})
CountOf(ts, t) == Len(SelectSeq(ts, LAMBDA u : u = t))

\* C21: for a content whose tags all pair up, with a title on every quote
\* and spoiler, the HTML returned has one <strong> ... </strong> for each
\* [b] ... [/b] and one <em> ... </em> for each [i] ... [/i], and none of
\* the tags [b], [/b], [i], [/i] is left in it
C21_BoldAndItalicPairsRendered ==
    (ipc = "returned" /\ PairedFrom(content, 1, <<>>)
        /\ CountOf(content, Tok.Q0) = 0) =>
        /\ OccurrencesI(innerResult, <<"<", "s", "t", "r", "o", "n", "g", ">">>)
               = CountOf(content, Tok.B)
        /\ OccurrencesI(innerResult, <<"<", "/", "s", "t", "r", "o", "n", "g",
               ">">>) = CountOf(content, Tok.B)
        /\ OccurrencesI(innerResult, <<"<", "e", "m", ">">>)
               = CountOf(content, Tok.IT)
        /\ OccurrencesI(innerResult, <<"<", "/", "e", "m", ">">>)
               = CountOf(content, Tok.IT)
        /\ \A lit \in {Tok.B.str, <<"[", "/", "b", "]">>, Tok.IT.str,
                         <<"[", "/", "i", "]">>} :
               OccurrencesI(innerResult, lit) = 0

-----------------------------------------------------------------------------
(* What the claims say of the depth counted between an opener and its closer *)

\* where the k-th tag or text of the input begins and ends, in the input and
\* in its lower-cased copy, which the inner loop searches
StartOf(k) == Len(InputOf(SubSeq(tokens, 1, k - 1)))
EndOf(k) == Len(InputOf(SubSeq(tokens, 1, k)))
LowerStartOf(k) == Len(toLowerCase(InputOf(SubSeq(tokens, 1, k - 1))))
\* where `remaining` begins
RemainingStart == Len(input) - Len(ex.remaining)
LowerRemainingStart == Len(toLowerCase(input)) - Len(toLowerCase(ex.remaining))

KindOfBlock == IF ex.tagName = QuoteName THEN "quote" ELSE "spoiler"
\* a tag of the block's kind begins at index p of the lower-cased remaining
SameKindTagAt(kind, p) ==
    \E k \in 1..Len(tokens) :
        /\ tokens[k].kind = kind
        /\ tokens[k].tag = KindOfBlock
        /\ LowerStartOf(k) = LowerRemainingStart + p

\* the opener of the block, its first closer, and the openers between them
IsOpenerOfBlock(a) == tokens[a].kind = "open" /\ EndOf(a) = RemainingStart + ex.startIndex
ClosersAfter(a) ==
    {c \in (a + 1)..Len(tokens) : tokens[c].kind = "close" /\ tokens[c].tag = KindOfBlock}
FirstCloserAfter(a) == CHOOSE c \in ClosersAfter(a) : \A d \in ClosersAfter(a) : c <= d
BodyHasOpener(a) ==
    \E k \in (a + 1)..(FirstCloserAfter(a) - 1) :
        tokens[k].kind = "open" /\ tokens[k].tag = KindOfBlock

\* C20: in the search for the closer of a block the depth goes up only at an
\* opening tag of the block's kind and down only at a closing tag of that
\* kind, so a block without an opening tag of its kind in its body ends at
\* the first closing tag of its kind after its opener
C20_DepthCountsSameKindTags ==
    [][ex.pc = "inner" =>
          /\ (ex'.pc = "inner" /\ ex'.depth > ex.depth) =>
                 SameKindTagAt("open", ex'.pos - Len(openTagStr(ex)))
          /\ (ex'.pc = "inner" /\ ex'.depth < ex.depth) =>
                 SameKindTagAt("close", ex'.pos - Len(closeTagStr(ex)))
          /\ ex'.pc = "outer" =>
                 \A a \in 1..Len(tokens) :
                     (IsOpenerOfBlock(a) /\ ClosersAfter(a) /= {} /\ ~BodyHasOpener(a)) =>
                         /\ Len(ex'.results) = Len(ex.results) + 1
                         /\ LowerRemainingStart + ex.endIndex
                                = LowerStartOf(FirstCloserAfter(a))]_vars

-----------------------------------------------------------------------------
(* What the claims say of the progress of extractOutermostQuotes            *)

\* what is left to do in state e of the call: the length of the remaining
\* text, then the place in the outer loop's body (its head, the inner loop,
\* the return), then how far pos is from the end of the lower-cased text,
\* which is at most twice as long as the text (U+0130 becomes two code
\* units, every other code unit one)
Variant(e) ==
    <<Len(e.remaining),
      IF e.pc = "outer" THEN 2 ELSE IF e.pc = "inner" THEN 1 ELSE 0,
      IF e.pc = "inner" THEN 2 * Len(e.remaining) - e.pos ELSE 0>>
\* the lexicographic order of such triples
Below(v, w) ==
    \/ v[1] < w[1]
    \/ v[1] = w[1] /\ v[2] < w[2]
    \/ v[1] = w[1] /\ v[2] = w[2] /\ v[3] < w[3]
\* one step of the call: an iteration of the inner loop that is followed by
\* another test of the loop's condition moves pos forward, and the end of an
\* iteration of the outer loop leaves a shorter remaining text
IterationAdvances ==
    /\ (ex.pc = "inner" /\ ex'.pc = "inner") => ex'.pos > ex.pos
    /\ (ex.pc = "inner" /\ ex'.pc = "outer") =>
           Len(ex'.remaining) < Len(ex.remaining)

\* C24: the call returns on every input, unbalanced ones included: every
\* iteration of the inner loop moves the scan position forward and every
\* iteration of the outer loop shortens the remaining text, so that every
\* step of the call lowers a triple of natural numbers in the lexicographic
\* order, which can happen only finitely often
C24_EveryIterationAdvances ==
    [][/\ IterationAdvances
       /\ LET before == Variant(ex)
              after == Variant(ex')
          IN  /\ Below(after, before)
              /\ \A k \in 1..3 : after[k] >= 0]_vars
\* three openers and one closer: two blocks are given up as unbalanced, the
\* third is returned
C24_Witness ==
    /\ tokens = <<Tok.QA, Tok.QA, Tok.QA, Tok.CQ>>
    /\ ex.pc = "returned"
    /\ ex.results = <<[title |-> <<"A">>, content |-> <<>>]>>

-----------------------------------------------------------------------------
(* What the claims say of the registry of temporary files                   *)

\* call c resolves in this step
Resolves(c) ==
    /\ c \in 1..Len(tmpCalls')
    /\ tmpCalls'[c].pc = "resolved"
    /\ c \in 1..Len(tmpCalls) => tmpCalls[c].pc /= "resolved"

\* C25: when a call of cleanup resolves, none of the paths that were
\* registered when the call began is registered any more, whatever calls of
\* add, remove and cleanup came before it
C25_CleanupEmptiesRegistry ==
    [][\A c \in 1..Len(tmpCalls') :
          (Resolves(c) /\ tmpCalls'[c].op = "cleanup") =>
              tmpCalls'[c].before \cap Registered(tmpFiles') = {}]_vars

-----------------------------------------------------------------------------
(* What the claims say of the debounced function                            *)

\* the k-th call is followed by another less than Delay later: it is not the
\* last call of its burst
BurstGoesOn(k) == k < Len(debCalls) /\ debCalls[k + 1].at - debCalls[k].at < Delay

\* C26: fn is invoked only with the arguments of the most recent call of the
\* debounced function, when at least Delay has passed since that call; no
\* call is answered by two invocations and no call that another follows
\* within less than Delay is answered at all, so a burst gives one invocation,
\* with the arguments of its last call, once no timer is pending
C26_OneInvocationPerBurst ==
    /\ \A i \in 1..Len(invoked) :
          /\ invoked[i].after \in 1..Len(debCalls)
          /\ invoked[i].args = debCalls[invoked[i].after].args
          /\ invoked[i].at - debCalls[invoked[i].after].at >= Delay
          /\ ~BurstGoesOn(invoked[i].after)
          /\ \A j \in 1..Len(invoked) : invoked[j].after = invoked[i].after => j = i
    /\ (timers = {} /\ debCalls /= <<>>) =>
          \E i \in 1..Len(invoked) : invoked[i].after = Len(debCalls)
\* three calls less than Delay apart, the last with other arguments, and the
\* one invocation they give
C26_Witness ==
    /\ Len(debCalls) = 3
    /\ \A k \in 1..2 : BurstGoesOn(k)
    /\ debCalls[2].args = "q1" /\ debCalls[3].args = "q2"
    /\ invoked = <<[at |-> debCalls[3].at + Delay, args |-> "q2", after |-> 3]>>

-----------------------------------------------------------------------------
(* What the claims say of the load-more trigger                             *)

\* C27: boundary-loadmore is dispatched only when the cooldown of the
\* dispatch before it has run its full time, only with enableLoadMore set, and
\* only with the page settled at its bottom (settledAtBottom is set, or the
\* page has been at its bottom for the settle delay)
C27_NoLoadMoreInCooldownOrUnsettled ==
    ov.dispatched /= None =>
        /\ Val(ov.dispatched).since >= LoadMoreCooldown
        /\ Val(ov.dispatched).enabled
        /\ Val(ov.dispatched).settled \/ Val(ov.dispatched).bottomFor >= SettleDelay

-----------------------------------------------------------------------------
(* What the claims say of the flag of a label and of its canonical language  *)

\* the flag MediaInfoCard shows for the audio row of a label (Header.svelte
\* 927) and the one getUniqueLanguageFlags shows for the same label
RawFlag(l) == getLanguageFlag(l.str)
CanonicalFlag(l) == getLanguageFlag(normalizeLanguage(l.str))

\* C28: for every label, the flag getLanguageFlag gives the raw label is the
\* flag it gives the label's canonical language, also for labels that carry
\* a qualifier in parentheses
C28_RawAndCanonicalFlagAgree ==
    (lpc = "flagReturned" /\ Len(labels) = 1) =>
        /\ ~CanonicalFlag(labels[1]).threw
        /\ flag = CanonicalFlag(labels[1]).value

-----------------------------------------------------------------------------
(* What the claims say of loadMediaInfoContent                               *)

\* the hashes a fetch returned an OK response for, and those of them whose
\* body was read as well
FetchedOk ==
    {settled[i].hash : i \in {j \in 1..Len(settled) :
                                  settled[j].went \in {"ok", "okUnread"}}}
FetchedAndRead ==
    {settled[i].hash : i \in {j \in 1..Len(settled) : settled[j].went = "ok"}}

\* no fetch was issued for a hash that was loaded or in flight
NoFetchTwice ==
    \A i \in 1..Len(issued) :
        /\ issued[i].hash \notin issued[i].loaded
        /\ issued[i].hash \notin issued[i].inFlight

\* C29, as stated: no fetch is issued for a hash that is loaded or in flight,
\* and once every issued fetch has settled loadingMediaInfo is empty and
\* loadedMediaInfo holds exactly the hashes whose fetch returned OK
C29_LoadedAreTheHashesFetchedOk ==
    /\ NoFetchTwice
    /\ pending = {} => /\ loadingMediaInfo = {}
                       /\ loadedMediaInfo = FetchedOk

\* C29, amended: no fetch is issued for a hash that is loaded or in flight,
\* and once every issued fetch has settled loadingMediaInfo is empty and
\* loadedMediaInfo holds exactly the hashes whose fetch returned OK and
\* whose body response.text() then delivered
C29_LoadedAreTheHashesFetchedAndRead ==
    /\ NoFetchTwice
    /\ pending = {} => /\ loadingMediaInfo = {}
                       /\ loadedMediaInfo = FetchedAndRead

\* two fetches were in flight together, one came back OK and was read, the
\* other failed and was fetched again in vain; calls for a hash that was
\* loaded or loading returned at once
C29_Witness ==
    /\ pending = {}
    /\ \E i \in 1..Len(issued) : issued[i].inFlight /= {}
    /\ loadedMediaInfo = {"h1"}
    /\ \E i, j \in 1..Len(settled) :
           /\ i < j
           /\ settled[i] = [hash |-> "h2", went |-> "notOk"]
           /\ settled[j] = [hash |-> "h2", went |-> "thrown"]
    /\ Len(issued) < loadCalls

-----------------------------------------------------------------------------
(* What the claims say of stepTorrents                                       *)

What(i) == events[i].what
LastEvent == IF events = <<>> THEN "" ELSE What(Len(events))

\* the list is not empty when it is returned, and no torrent in it is
\* without a MediaInfo entry
ReturnsTorrentsWithMediaInfo ==
    /\ step = "returned" => Len(torrents) >= 1
    /\ \A i \in 1..Len(torrents) : Len(torrents[i].mediainfo) >= 1

\* the torrents of the list are the results of parses that returned, and a
\* parse that throws is reported and leaves the list as it was
ThrowingParseIsReportedNotAdded ==
    /\ \A i \in 1..Len(torrents) :
           LET r == parseTorrent(torrents[i].from)
           IN  /\ ~r.threw
               /\ torrents[i].name = r.name
               /\ torrents[i].files = r.files
    /\ Len(torrents) <= Prompts("parsed")
    /\ (step = "whileTorrents" /\ parseTorrent(Val(torrentPath)).threw) =>
           /\ LastEvent = "parseFailed"
           /\ events[Len(events)].torrents = Len(torrents)

\* C30, as stated: stepTorrents returns at least one torrent, each with at
\* least one MediaInfo entry; a torrent file whose parse throws is not
\* added, the failure is reported and the user is prompted for a torrent
\* again
C30_PromptedAgainAfterFailedParse ==
    /\ ReturnsTorrentsWithMediaInfo
    /\ ThrowingParseIsReportedNotAdded
    /\ step = "returned" =>
           \A i \in 1..Len(events) :
               What(i) = "parseFailed" =>
                   \E j \in (i + 1)..Len(events) : What(j) = "promptTorrentPath"

\* C30, amended: stepTorrents returns at least one torrent, each with at
\* least one MediaInfo entry; a torrent file whose parse throws is not
\* added, the failure is reported, and the user is prompted for a torrent
\* again at once while the list is empty, and is otherwise asked whether to
\* add another torrent and prompted again if the answer is yes
C30_PromptedOrAskedAfterFailedParse ==
    /\ ReturnsTorrentsWithMediaInfo
    /\ ThrowingParseIsReportedNotAdded
    /\ \A i \in 1..(Len(events) - 1) :
           /\ What(i) = "parseFailed" =>
                  What(i + 1) = IF events[i].torrents = 0
                                THEN "promptTorrentPath" ELSE "promptAddMore"
           /\ What(i) = "promptAddMore" => What(i + 1) = "promptTorrentPath"
    /\ step = "returned" => LastEvent = "promptAddMore"

\* a parse failed with the list empty and the user was prompted again; a
\* blank report was skipped; with one torrent in the list a parse failed
\* again, and the user declined to add another
C30_Witness ==
    /\ step = "returned"
    /\ Len(torrents) = 1
    /\ [i \in 1..Len(events) |-> What(i)] =
           <<"promptTorrentPath", "parseFailed", "promptTorrentPath", "parsed",
             "promptMediaInfo", "promptMediaInfo", "promptAddMore",
             "promptTorrentPath", "parseFailed", "promptAddMore">>

=============================================================================
